---- MODULE Spec2Model ----
(***************************************************************************)
(* Model of the bazed text-buffer core (crates/bazed-core): Buffer,        *)
(* BufferRegions, UndoHistory, Region and the motion resolver, together    *)
(* with the parts of xi_rope (Rope, Delta, Transformer, Engine) that the   *)
(* buffer relies on.                                                       *)
(*                                                                         *)
(* A text is a sequence of UTF-8 code units, as in xi_rope, where every    *)
(* offset and length is a byte offset.  The two-byte character U+00E9 is   *)
(* the pair <<"C3", "A9">>.                                                *)
(***************************************************************************)
EXTENDS Integers, Sequences, FiniteSets, TLC

\* ------------------------------------------------------------------ bounds
\* most bytes the engine may hold, deleted and undone text included
MaxLen == 2
\* most edit revisions the engine may log
MaxRevs == 2
\* the same two bounds for the editing specification
EditMaxLen == 3
EditMaxRevs == 3
\* largest undo group id (UndoHistory.cur_undo_gid) the history specification
\* allocates
MaxGroups == 5
\* largest offset, and most regions, of the caret specification
MaxOffset == 2
MaxCarets == 3
\* largest number of entries of BufferRegions.regions
MaxRegions == 2
\* largest first_line / height of a Viewport handed to an operation
MaxViewport == 1
\* most bytes of the text a Buffer of the motion specification is created from
MotionMaxLen == 5
\* most bytes of a text, deleted ones included, and most edits of the
\* specification of edits between motions
ColumnMaxLen == 4
ColumnMaxRevs == 2
\* most bytes of a text of the word boundary specification
WordMaxLen == 4

\* ------------------------------------------------------------------ helpers
Min(a, b) == IF a <= b THEN a ELSE b
Max(a, b) == IF a >= b THEN a ELSE b

\* Option<usize>: None is the empty set, Some(x) the singleton {x}
None == {}
Some(x) == {x}
Unwrap(o) == CHOOSE x \in o : TRUE

\* ------------------------------------------------------------------ Rope
\* second byte of the two-byte character
Cont == "A9"
Lead == "C3"
\* the control character U+0001
Ctrl == "01"

\* the strings an Insert operation may carry: "a", "\n", U+00E9
InsertTexts == { <<"a">>, <<"\n">>, <<Lead, Cont>> }

\* str::is_char_boundary for an offset 0..=len
is_char_boundary(t, k) ==
    \/ k = 0
    \/ k = Len(t)
    \/ (k > 0 /\ k < Len(t) /\ t[k + 1] # Cont)

\* the offset one byte before k
prev_byte_offset(t, k) == IF k = 0 THEN None ELSE Some(k - 1)

\* Rope::prev_grapheme_offset: None at offset 0
prev_grapheme_offset(t, k) ==
    IF k = 0 THEN None
    ELSE Some(CHOOSE j \in 0..(k - 1) :
            /\ is_char_boundary(t, j)
            /\ \A i \in (j + 1)..(k - 1) : ~is_char_boundary(t, i))

\* Rope::next_grapheme_offset: None at the end of the text
next_grapheme_offset(t, k) ==
    IF k >= Len(t) THEN None
    ELSE Some(CHOOSE j \in (k + 1)..Len(t) :
            /\ is_char_boundary(t, j)
            /\ \A i \in (k + 1)..(j - 1) : ~is_char_boundary(t, i))

\* Rope::line_of_offset: the number of newlines before the offset
line_of_offset(t, k) == Cardinality({ i \in 1..Min(k, Len(t)) : t[i] = "\n" })

\* the offset in front of the line-th newline
offset_of_line_break(t, line) ==
    IF line = 0 THEN 0
    ELSE IF line > Cardinality({ i \in 1..Len(t) : t[i] = "\n" }) THEN Len(t)
    ELSE (CHOOSE k \in 1..Len(t) :
            t[k] = "\n" /\ Cardinality({ i \in 1..k : t[i] = "\n" }) = line) - 1

\* Rope::offset_of_line: the offset behind the line-th newline; the text
\* length for the line after the last one
offset_of_line(t, line) ==
    IF line = 0 THEN 0
    ELSE IF line > line_of_offset(t, Len(t)) THEN Len(t)
    ELSE CHOOSE k \in 1..Len(t) : t[k] = "\n" /\ line_of_offset(t, k) = line

\* ------------------------------------------------------------------ Delta
\* DeltaElement::Copy(beg, end) and DeltaElement::Insert(s)
Copy(b, e) == [copy |-> TRUE, beg |-> b, end |-> e, s |-> <<>>]
Insert(str) == [copy |-> FALSE, beg |-> 0, end |-> 0, s |-> str]

\* DeltaBuilder: the state is (els, last_offset); delete and replace append
\* to it, build closes it with the trailing copy.
builder_delete(b, start, end) ==
    [ els |-> IF start > b.last_offset
                 THEN Append(b.els, Copy(b.last_offset, start))
                 ELSE b.els,
      last_offset |-> end,
      \* "Delta builder: intervals not properly sorted"
      sorted |-> b.sorted /\ start >= b.last_offset ]

builder_replace(b, start, end, str) ==
    LET d == builder_delete(b, start, end)
    IN  IF str = <<>> THEN d ELSE [d EXCEPT !.els = Append(d.els, Insert(str))]

builder_build(b, base_len) ==
    [ els |-> IF b.last_offset < base_len
                 THEN Append(b.els, Copy(b.last_offset, base_len))
                 ELSE b.els,
      base_len |-> base_len,
      sorted |-> b.sorted ]

builder_new == [els |-> <<>>, last_offset |-> 0, sorted |-> TRUE]

\* Delta::apply
RECURSIVE apply_els(_, _)
apply_els(els, t) ==
    IF els = <<>> THEN <<>>
    ELSE LET el == Head(els)
         IN  (IF el.copy THEN SubSeq(t, el.beg + 1, el.end) ELSE el.s)
               \o apply_els(Tail(els), t)

\* a copy that does not start and end on a character boundary makes the
\* string slicing in the rope panic
delta_splits_char(d, t) ==
    \E i \in 1..Len(d.els) :
        /\ d.els[i].copy
        /\ ~(is_char_boundary(t, d.els[i].beg) /\ is_char_boundary(t, d.els[i].end))

\* Transformer::transform(ix, after)
RECURSIVE transform_els(_, _, _, _)
transform_els(els, ix, after, result) ==
    IF els = <<>> THEN result
    ELSE LET el == Head(els)
         IN  IF el.copy
             THEN IF ix <= el.beg THEN result
                  ELSE IF ix < el.end \/ (ix = el.end /\ ~after)
                       THEN result + ix - el.beg
                       ELSE transform_els(Tail(els), ix, after, result + el.end - el.beg)
             ELSE transform_els(Tail(els), ix, after, result + Len(el.s))

transform(d, ix, after) ==
    IF ix = 0 /\ ~after THEN 0 ELSE transform_els(d.els, ix, after, 0)

\* ------------------------------------------------------------------ Engine
\* xi_rope's Engine keeps every character that was ever part of the text in
\* one "union string".  A character records the undo group of the revision
\* that inserted it (ins) and the undo groups of the revisions that deleted
\* it (del); the head text is made of the characters that are visible under
\* the engine's set of undone groups.
visible(c, undone) == c.ins \notin undone /\ c.del \subseteq undone

RECURSIVE project(_, _)
project(union, undone) ==
    IF union = <<>> THEN <<>>
    ELSE (IF visible(Head(union), undone) THEN <<Head(union).ch>> ELSE <<>>)
           \o project(Tail(union), undone)

new_chars(str, g) == [i \in 1..Len(str) |-> [ch |-> str[i], ins |-> g, del |-> {}]]

\* Engine::new: non-empty initial contents are one edit under undo group 0
Engine_new(rope) ==
    [ text |-> rope, union |-> new_chars(rope, 0), undone_groups |-> {},
      revs |-> IF rope = <<>> THEN <<>>
               ELSE << [undo_group |-> 0,
                        delta |-> [els |-> <<Insert(rope)>>, base_len |-> 0, sorted |-> TRUE]] >> ]

\* Engine::get_head
get_head(e) == e.text

\* Delta::factor: the text offsets a delta deletes (0-based character
\* indices no copy covers) and the strings it inserts, each at the end of
\* the copy before it
deleted_offsets(d) ==
    { k \in 0..(d.base_len - 1) :
        ~\E i \in 1..Len(d.els) :
            d.els[i].copy /\ d.els[i].beg <= k /\ k < d.els[i].end }

RECURSIVE last_copy_end(_, _)
last_copy_end(els, i) ==
    IF i = 0 THEN 0
    ELSE IF els[i].copy THEN els[i].end ELSE last_copy_end(els, i - 1)

RECURSIVE inserted_at(_, _, _)
inserted_at(d, k, i) ==
    IF i > Len(d.els) THEN <<>>
    ELSE (IF ~d.els[i].copy /\ last_copy_end(d.els, i) = k THEN d.els[i].s ELSE <<>>)
           \o inserted_at(d, k, i + 1)

\* the union string after a revision: rank is the text offset of the next
\* visible character; inserts land in front of the visible character at their
\* offset, behind the tombstones of that gap
RECURSIVE union_after(_, _, _, _, _)
union_after(union, undone, d, g, rank) ==
    IF union = <<>> THEN new_chars(inserted_at(d, rank, 1), g)
    ELSE LET c == Head(union)
         IN  IF visible(c, undone)
             THEN new_chars(inserted_at(d, rank, 1), g)
                    \o << IF rank \in deleted_offsets(d)
                             THEN [c EXCEPT !.del = @ \cup {g}] ELSE c >>
                    \o union_after(Tail(union), undone, d, g, rank + 1)
             ELSE <<c>> \o union_after(Tail(union), undone, d, g, rank)

\* Engine::edit_rev on the head revision.  An edit whose undo group is
\* already undone leaves the head text as it is.
edit_rev(e, undo_group, d) ==
    [ text |-> IF undo_group \in e.undone_groups THEN e.text ELSE apply_els(d.els, e.text),
      union |-> union_after(e.union, e.undone_groups, d, undo_group, 0),
      undone_groups |-> e.undone_groups,
      revs |-> Append(e.revs, [undo_group |-> undo_group, delta |-> d]) ]

\* Engine::undo that records the groups and keeps the head text
Engine_undo_stale_head(e, groups) == [e EXCEPT !.undone_groups = groups]

\* Engine::undo(groups): the head is recomputed from the union string
Engine_undo(e, groups) ==
    [ text |-> project(e.union, groups),
      union |-> e.union,
      undone_groups |-> groups,
      revs |-> e.revs ]

\* Delta::synthesize, as Engine::try_delta_rev_head uses it: the delta from
\* the head under the undone set `from` to the head under the undone set `to`.
\* Contiguous copies are merged.
push_copy(els, x) ==
    IF els # <<>> /\ els[Len(els)].copy /\ els[Len(els)].end = x
    THEN [els EXCEPT ![Len(els)].end = x + 1]
    ELSE Append(els, Copy(x, x + 1))

RECURSIVE synthesize_els(_, _, _, _, _)
synthesize_els(union, from, to, x, els) ==
    IF union = <<>> THEN els
    ELSE LET c == Head(union)
             old == visible(c, from)
             new == visible(c, to)
         IN  synthesize_els(Tail(union), from, to, IF old THEN x + 1 ELSE x,
                IF old /\ new THEN push_copy(els, x)
                ELSE IF new THEN Append(els, Insert(<<c.ch>>))
                ELSE els)

try_delta_rev_head(e, old_undone) ==
    [ els |-> synthesize_els(e.union, old_undone, e.undone_groups, 0, <<>>),
      base_len |-> Len(project(e.union, old_undone)),
      sorted |-> TRUE ]

\* ------------------------------------------------------------------ Region
Region_sticky(head, tail) ==
    [head |-> head, tail |-> tail, stickyness |-> "Sticky", preferred_column |-> None]

sticky_cursor(offset) == Region_sticky(offset, offset)

\* Region::range: head and tail in order of offset
range_start(r) == Min(r.head, r.tail)
range_end(r) == Max(r.head, r.tail)

\* Region::with_end_at
with_end_at(r, offset) ==
    IF r.head <= r.tail THEN [r EXCEPT !.tail = offset] ELSE [r EXCEPT !.head = offset]

is_cursor(r) == r.head = r.tail

\* Region::overlaps
overlaps(a, b) == range_start(a) <= range_end(b) /\ range_start(b) <= range_end(a)

\* Region::is_strictly_before
is_strictly_before(a, b) == a.head < b.head /\ ~overlaps(a, b)

\* apply_transformer that transforms the head only
Region_apply_transformer_head(r, d) ==
    [r EXCEPT !.head = transform(d, r.head, r.stickyness = "Sticky")]

\* Region::apply_transformer
Region_apply_transformer(r, d) ==
    [r EXCEPT !.head = transform(d, r.head, r.stickyness = "Sticky"),
              !.tail = transform(d, r.tail, r.stickyness = "Sticky")]

\* ------------------------------------------------------------------ BufferRegions
\* RegionId::gen: an id no region of the map carries
RegionId_gen(br) == CHOOSE id \in 1..(Cardinality(DOMAIN br.regions) + 1) :
                        id \notin DOMAIN br.regions

\* BufferRegions::default
BufferRegions_default ==
    [ regions |-> (1 :> sticky_cursor(0)), carets |-> <<1>>, primary_caret_id |-> 1 ]

\* sort_unstable_by_key(head): every ordering of the ids by ascending head;
\* the order among carets of equal head is not determined
sorted_by_head(regions, carets) ==
    { s \in [1..Len(carets) -> {carets[i] : i \in 1..Len(carets)}] :
        /\ \A i, j \in 1..Len(carets) : i # j => s[i] # s[j]
        /\ \A i \in 1..(Len(carets) - 1) : regions[s[i]].head <= regions[s[i + 1]].head }

remove_at(s, i) == SubSeq(s, 1, i - 1) \o SubSeq(s, i + 1, Len(s))

\* the merge loop of make_carets_consistent, from index i (1-based)
RECURSIVE merge_carets(_, _)
merge_carets(br, i) ==
    IF i >= Len(br.carets) THEN br
    ELSE LET caret_b == br.regions[br.carets[i + 1]]
             caret_a == br.regions[br.carets[i]]
         IN  IF range_end(caret_a) >= range_start(caret_b)
             THEN LET deleted_caret == br.carets[i + 1]
                  IN  merge_carets(
                        [ regions |-> [br.regions EXCEPT
                                         ![br.carets[i]] = with_end_at(caret_a, range_end(caret_b))],
                          carets |-> remove_at(br.carets, i + 1),
                          primary_caret_id |-> IF br.primary_caret_id = deleted_caret
                                                  THEN br.carets[i]
                                                  ELSE br.primary_caret_id ],
                        i)
             ELSE merge_carets(br, i + 1)

\* make_carets_consistent without its merge loop
make_carets_consistent_unmerged(br) ==
    { [br EXCEPT !.carets = s] : s \in sorted_by_head(br.regions, br.carets) }

\* BufferRegions::make_carets_consistent: the set of its possible results
make_carets_consistent(br) ==
    { merge_carets([br EXCEPT !.carets = s], 1) : s \in sorted_by_head(br.regions, br.carets) }

\* apply_delta that leaves every region at its offsets
BufferRegions_apply_delta_in_place(br, d) == make_carets_consistent(br)

\* BufferRegions::apply_delta / apply_transformer
BufferRegions_apply_delta(br, d) ==
    make_carets_consistent(
        [br EXCEPT !.regions = [id \in DOMAIN br.regions |->
                                  Region_apply_transformer(br.regions[id], d)]])

\* BufferRegions::carets: the regions of the carets, in list order
carets_of(br) == [i \in 1..Len(br.carets) |-> br.regions[br.carets[i]]]

\* the debug assertion of BufferRegions::carets
carets_strictly_ordered(br) ==
    \A i \in 1..(Len(br.carets) - 1) :
        is_strictly_before(br.regions[br.carets[i]], br.regions[br.carets[i + 1]])

\* add_caret without the push onto the caret list
add_caret_unlisted(br, make_primary, region) ==
    LET id == RegionId_gen(br)
    IN  make_carets_consistent(
          [ regions |-> [x \in DOMAIN br.regions \cup {id} |->
                           IF x = id THEN region ELSE br.regions[x]],
            carets |-> br.carets,
            primary_caret_id |-> IF make_primary THEN id ELSE br.primary_caret_id ])

\* BufferRegions::add_caret
add_caret(br, make_primary, region) ==
    LET id == RegionId_gen(br)
    IN  make_carets_consistent(
          [ regions |-> [x \in DOMAIN br.regions \cup {id} |->
                           IF x = id THEN region ELSE br.regions[x]],
            carets |-> Append(br.carets, id),
            primary_caret_id |-> IF make_primary THEN id ELSE br.primary_caret_id ])

\* BufferRegions::update_carets: f gives, for the id of each caret, the region the
\* closure leaves it as
is_caret(br, id) == \E i \in 1..Len(br.carets) : br.carets[i] = id

update_carets(br, f) ==
    make_carets_consistent(
        [br EXCEPT !.regions = [id \in DOMAIN br.regions |->
                                  IF is_caret(br, id) THEN f[id] ELSE br.regions[id]]])

\* BufferRegions::update_regions: the closure is called on every region of the map
update_regions(br, f) ==
    make_carets_consistent([br EXCEPT !.regions = [id \in DOMAIN br.regions |-> f[id]]])

\* BufferRegions::set_primary_caret
set_primary_caret(br, region) ==
    make_carets_consistent([br EXCEPT !.regions[br.primary_caret_id] = region])

\* collapse_selections that draws the head to the tail
collapse_selections_to_tail(br) ==
    make_carets_consistent(
        [br EXCEPT !.regions = [id \in DOMAIN br.regions |->
            IF \E i \in 1..Len(br.carets) : br.carets[i] = id
            THEN [br.regions[id] EXCEPT !.head = br.regions[id].tail]
            ELSE br.regions[id]]])

\* BufferRegions::collapse_selections
collapse_selections(br) ==
    make_carets_consistent(
        [br EXCEPT !.regions = [id \in DOMAIN br.regions |->
            IF \E i \in 1..Len(br.carets) : br.carets[i] = id
            THEN [br.regions[id] EXCEPT !.tail = br.regions[id].head]
            ELSE br.regions[id]]])

\* BufferRegions::collapse_carets_into_primary
collapse_carets_into_primary(br) ==
    [ regions |-> [id \in { x \in DOMAIN br.regions :
                              x = br.primary_caret_id
                              \/ ~\E i \in 1..Len(br.carets) : br.carets[i] = x } |->
                     br.regions[id]],
      carets |-> <<br.primary_caret_id>>,
      primary_caret_id |-> br.primary_caret_id ]

\* ------------------------------------------------------------------ UndoHistory
UndoHistory_default ==
    [ cur_undo_gid |-> 0, cur_history_idx |-> 0, history |-> <<0>>, currently_undone |-> {} ]

\* history is a Vec indexed from 0
history_at(u, n) == u.history[n + 1]

\* needs_new_undo_group that ignores where the history stands
needs_new_undo_group_always(u, new_undo_group) == TRUE

\* UndoHistory::perform_edit: the history afterwards and the id it returns
needs_new_undo_group(u, new_undo_group) ==
    new_undo_group \/ u.cur_history_idx # Len(u.history) - 1

\* perform_edit without the truncation of the history
perform_edit_untruncated(u, new_undo_group) ==
    IF needs_new_undo_group(u, new_undo_group)
    THEN [ cur_undo_gid |-> u.cur_undo_gid + 1,
           cur_history_idx |-> u.cur_history_idx + 1,
           history |-> Append(u.history, u.cur_undo_gid + 1),
           currently_undone |-> u.currently_undone ]
    ELSE u

perform_edit(u, new_undo_group) ==
    IF needs_new_undo_group(u, new_undo_group)
    THEN [ cur_undo_gid |-> u.cur_undo_gid + 1,
           cur_history_idx |-> u.cur_history_idx + 1,
           history |-> Append(SubSeq(u.history, 1, u.cur_history_idx + 1), u.cur_undo_gid + 1),
           currently_undone |-> u.currently_undone ]
    ELSE u

\* can_undo with an off-by-one comparison
can_undo_from_zero(u) == u.cur_history_idx >= 0

can_undo(u) == u.cur_history_idx > 0
can_redo(u) == u.cur_history_idx < Len(u.history) - 1
get_active_undo_id(u) == history_at(u, u.cur_history_idx)

\* UndoHistory::undo.  The insert into currently_undone is the argument of a
\* debug_assert!, which a build without debug assertions does not evaluate.
UndoHistory_undo(u, dbg) ==
    IF ~can_undo(u) THEN u
    ELSE [u EXCEPT !.currently_undone = IF dbg THEN @ \cup {get_active_undo_id(u)} ELSE @,
                   !.cur_history_idx = @ - 1]

\* UndoHistory::redo.  The removal from currently_undone is the argument of a
\* debug_assert! as well.
UndoHistory_redo(u, dbg) ==
    IF ~can_redo(u) THEN u
    ELSE LET idx == u.cur_history_idx + 1
         IN  [u EXCEPT !.cur_history_idx = idx,
                       !.currently_undone = IF dbg THEN @ \ {history_at(u, idx)} ELSE @]

\* ------------------------------------------------------------------ Position
Position(line, col) == [line |-> line, col |-> col]

\* Position::from_offset: None when the offset is beyond the text
from_offset(t, offset) ==
    IF offset > Len(t) THEN None
    ELSE LET line == line_of_offset(t, offset)
         IN  Some(Position(line, offset - offset_of_line(t, line)))

\* to_offset that accepts the column one behind the line break
to_offset_into_next_line(pos, t) ==
    LET last_line == line_of_offset(t, Len(t))
        line_offset == offset_of_line(t, pos.line)
        naive_offset == line_offset + pos.col
    IN  IF pos.line > last_line THEN None
        ELSE IF naive_offset > Len(t) THEN None
        ELSE IF pos.line = last_line \/ naive_offset <= offset_of_line(t, pos.line + 1)
             THEN IF naive_offset = Len(t) THEN Some(naive_offset)
                  ELSE LET g == prev_grapheme_offset(t, naive_offset + 1)
                       IN  Some(IF g = None THEN 0 ELSE Unwrap(g))
             ELSE None

\* Position::to_offset: None when there is no character at the position
to_offset(pos, t) ==
    LET last_line == line_of_offset(t, Len(t))
        line_offset == offset_of_line(t, pos.line)
        naive_offset == line_offset + pos.col
    IN  IF pos.line > last_line THEN None
        ELSE IF naive_offset > Len(t) THEN None
        ELSE IF pos.line = last_line \/ naive_offset < offset_of_line(t, pos.line + 1)
             THEN IF naive_offset = Len(t) THEN Some(naive_offset)
                  ELSE LET g == prev_grapheme_offset(t, naive_offset + 1)
                       IN  Some(IF g = None THEN 0 ELSE Unwrap(g))
             ELSE None

\* to_offset_snapping without the restriction to the end of the line
to_offset_snapping_unrestricted(pos, t) ==
    LET line == Min(pos.line, line_of_offset(t, Len(t)))
        naive == offset_of_line(t, line) + pos.col
    IN  IF naive >= Len(t) THEN Len(t)
        ELSE LET g == prev_grapheme_offset(t, naive + 1)
             IN  IF g = None THEN 0 ELSE Unwrap(g)

\* Position::to_offset_snapping
to_offset_snapping(pos, t) ==
    LET last_line == line_of_offset(t, Len(t))
        line == Min(pos.line, last_line)
        line_offset == offset_of_line(t, line)
        naive == line_offset + pos.col
        naive_offset == IF naive >= Len(t) THEN Len(t)
                        ELSE LET g == prev_grapheme_offset(t, naive + 1)
                             IN  IF g = None THEN 0 ELSE Unwrap(g)
    IN  IF line = last_line THEN naive_offset
        ELSE LET next_line_offset == offset_of_line(t, line + 1)
             IN  IF naive_offset < next_line_offset THEN naive_offset
                 ELSE LET g == prev_grapheme_offset(t, next_line_offset)
                      IN  IF g = None THEN naive_offset ELSE Unwrap(g)

\* ------------------------------------------------------------------ Viewport
Viewport(first_line, height) == [first_line |-> first_line, height |-> height]

\* Viewport::last_line, a saturating subtraction
Viewport_last_line(vp) == Max(vp.first_line + vp.height - 1, 0)

\* Viewport::with_line_in_view, for a height of at least 1 (`vp.height - 1`)
with_line_in_view(vp, line_nr, scroll_off) ==
    [vp EXCEPT !.first_line =
        IF line_nr < vp.first_line + scroll_off
        THEN Max(line_nr - scroll_off, 0)
        ELSE IF line_nr > Max(Viewport_last_line(vp) - scroll_off, 0)
             THEN Max(line_nr + scroll_off - (vp.height - 1), 0)
             ELSE vp.first_line]

\* ------------------------------------------------------------------ word boundaries
\* CharCategory::of_char of the character a byte starts
CharCategory_of_char(b) ==
    IF b \in {"\n", " "} THEN "Whitespace"
    ELSE IF b = "." THEN "Punctuation"
    ELSE IF b = Ctrl THEN "Other"
    ELSE "Word"

\* WordBoundaryType::between_types
between_types(a, b) ==
    IF a = "Other" \/ b = "Other" THEN None
    ELSE IF a = b THEN None
    ELSE IF {a, b} = {"Word", "Punctuation"} THEN Some("Both")
    ELSE IF a = "Whitespace" THEN Some("Start")
    ELSE Some("End")

\* WordBoundaryType::matches
matches(a, b) == a = "Both" \/ b = "Both" \/ a = b

\* the characters of a slice of the text, each by its first byte
RECURSIVE chars(_)
chars(bytes) ==
    IF bytes = <<>> THEN <<>>
    ELSE (IF Head(bytes) = Cont THEN <<>> ELSE <<Head(bytes)>>) \o chars(Tail(bytes))

reverse(s) == [i \in 1..Len(s) |-> s[Len(s) + 1 - i]]

\* WordBoundaries::next, unrolled: the boundaries between neighbours of a
\* character sequence, each with the number of characters in front of it
RECURSIVE WordBoundaries(_, _, _)
WordBoundaries(cs, reversing, i) ==
    IF i >= Len(cs) THEN <<>>
    ELSE LET prev == CharCategory_of_char(cs[i])
             cur == CharCategory_of_char(cs[i + 1])
             boundary == IF reversing THEN between_types(cur, prev)
                         ELSE between_types(prev, cur)
         IN  (IF boundary = None THEN <<>> ELSE << <<i, Unwrap(boundary)>> >>)
               \o WordBoundaries(cs, reversing, i + 1)

\* the chunk of the rope that ends (for the backward scan) or starts (for the
\* forward scan) at start_at is cut out of the leaf as a str slice, which
\* panics inside a character
scan_panics(t, start_at) == ~is_char_boundary(t, start_at)

\* find_word_boundaries without the boundary chained on at the end of the text
find_word_boundaries_unchained(t, start_at) ==
    LET bs == WordBoundaries(chars(SubSeq(t, start_at + 1, Len(t))), FALSE, 1)
    IN  [i \in 1..Len(bs) |-> <<bs[i][1] + start_at, bs[i][2]>>]

\* find_word_boundaries: the character counts are added to the byte offset
find_word_boundaries(t, start_at) ==
    LET bs == WordBoundaries(chars(SubSeq(t, start_at + 1, Len(t))), FALSE, 1)
    IN  [i \in 1..Len(bs) |-> <<bs[i][1] + start_at, bs[i][2]>>]
          \o << <<Len(t), "Both">> >>

\* find_word_boundaries_backwards
find_word_boundaries_backwards(t, start_at) ==
    LET bs == WordBoundaries(reverse(chars(SubSeq(t, 1, start_at))), TRUE, 1)
    IN  [i \in 1..Len(bs) |-> <<Max(start_at - bs[i][1], 0), bs[i][2]>>]
          \o << <<0, "Both">> >>

\* Iterator::find(|(_, t)| t.matches(kind)).map_or(default, |(offset, _)| offset)
first_matching(bs, kind, default) ==
    IF \E i \in 1..Len(bs) : matches(bs[i][2], kind)
    THEN bs[CHOOSE i \in 1..Len(bs) :
               /\ matches(bs[i][2], kind)
               /\ \A j \in 1..(i - 1) : ~matches(bs[j][2], kind)][1]
    ELSE default

\* ------------------------------------------------------------------ motions
Motion(kind, boundary_type) == [kind |-> kind, boundary_type |-> boundary_type]

WordBoundaryTypes == {"Start", "End", "Both"}

Motions ==
    { Motion(k, "Both") : k \in {"Left", "Right", "Up", "Down", "StartOfLine", "EndOfLine",
                                 "TopOfViewport", "BottomOfViewport"} }
    \cup { Motion(k, b) : k \in {"NextWordBoundary", "PrevWordBoundary"},
                          b \in WordBoundaryTypes }

\* move_vertically that collapses the region whatever only_move_head is
move_vertically_collapsing(t, region, by_lines, only_move_head) ==
    LET pos0 == Unwrap(from_offset(t, region.head))
        pos == IF region.preferred_column # None
               THEN Position(pos0.line, Unwrap(region.preferred_column))
               ELSE pos0
        target_line == IF by_lines < 0 THEN Max(pos.line + by_lines, 0)
                       ELSE pos.line + by_lines
        last_line == line_of_offset(t, Len(t))
        offset == IF target_line # pos.line
                  THEN to_offset_snapping(
                         Position(Max(0, Min(target_line, last_line)), pos.col), t)
                  ELSE region.head
    IN  [ head |-> offset,
          tail |-> offset,
          stickyness |-> region.stickyness,
          preferred_column |-> Some(pos.col) ]

\* move_vertically
move_vertically(t, region, by_lines, only_move_head) ==
    LET pos0 == Unwrap(from_offset(t, region.head))
        pos == IF region.preferred_column # None
               THEN Position(pos0.line, Unwrap(region.preferred_column))
               ELSE pos0
        preferred_column == pos.col
        target_line == IF by_lines < 0 THEN Max(pos.line + by_lines, 0)
                       ELSE pos.line + by_lines
        last_line == line_of_offset(t, Len(t))
        offset == IF target_line # pos.line
                  THEN to_offset_snapping(
                         Position(Max(0, Min(target_line, last_line)), pos.col), t)
                  ELSE region.head
    IN  [ head |-> offset,
          tail |-> IF only_move_head THEN region.tail ELSE offset,
          stickyness |-> region.stickyness,
          preferred_column |-> Some(preferred_column) ]

\* apply_motion_to_region that keeps the preferred column (`..region`)
apply_motion_to_region_keeping_column(t, vp, region, only_move_head, motion) ==
    LET k == motion.kind
        line == line_of_offset(t, region.head)
        last_line == line_of_offset(t, Len(t))
        g == IF k = "Left" THEN prev_grapheme_offset(t, region.head)
             ELSE next_grapheme_offset(t, region.head)
        offset ==
            CASE k \in {"Left", "Right"} -> IF g = None THEN region.head ELSE Unwrap(g)
              [] k = "StartOfLine" -> offset_of_line(t, line)
              [] k = "EndOfLine" ->
                    IF line < last_line THEN offset_of_line(t, line + 1) ELSE Len(t)
              [] k = "NextWordBoundary" ->
                    first_matching(find_word_boundaries(t, region.head),
                                   motion.boundary_type, Len(t))
              [] k = "PrevWordBoundary" ->
                    first_matching(find_word_boundaries_backwards(t, region.head),
                                   motion.boundary_type, 0)
              [] OTHER -> 0
    IN  CASE k = "Up" -> move_vertically(t, region, -1, only_move_head)
          [] k = "Down" -> move_vertically(t, region, 1, only_move_head)
          [] k = "TopOfViewport" ->
                move_vertically(t, region, vp.first_line - line, only_move_head)
          [] k = "BottomOfViewport" ->
                move_vertically(t, region, Viewport_last_line(vp) - line, only_move_head)
          [] OTHER ->
                [ head |-> offset,
                  tail |-> IF only_move_head THEN region.tail ELSE offset,
                  stickyness |-> region.stickyness,
                  preferred_column |-> region.preferred_column ]

\* apply_motion_to_region
apply_motion_to_region(t, vp, region, only_move_head, motion) ==
    LET k == motion.kind
        line == line_of_offset(t, region.head)
        last_line == line_of_offset(t, Len(t))
        g == IF k = "Left" THEN prev_grapheme_offset(t, region.head)
             ELSE next_grapheme_offset(t, region.head)
        offset ==
            CASE k \in {"Left", "Right"} -> IF g = None THEN region.head ELSE Unwrap(g)
              [] k = "StartOfLine" -> offset_of_line(t, line)
              [] k = "EndOfLine" ->
                    IF line < last_line THEN offset_of_line(t, line + 1) ELSE Len(t)
              [] k = "NextWordBoundary" ->
                    first_matching(find_word_boundaries(t, region.head),
                                   motion.boundary_type, Len(t))
              [] k = "PrevWordBoundary" ->
                    first_matching(find_word_boundaries_backwards(t, region.head),
                                   motion.boundary_type, 0)
              [] OTHER -> 0
    IN  CASE k = "Up" -> move_vertically(t, region, -1, only_move_head)
          [] k = "Down" -> move_vertically(t, region, 1, only_move_head)
          [] k = "TopOfViewport" ->
                move_vertically(t, region, vp.first_line - line, only_move_head)
          [] k = "BottomOfViewport" ->
                move_vertically(t, region, Viewport_last_line(vp) - line, only_move_head)
          [] OTHER ->
                [ head |-> offset,
                  tail |-> IF only_move_head THEN region.tail ELSE offset,
                  stickyness |-> region.stickyness,
                  preferred_column |-> None ]

\* Position::from_offset(..).unwrap() and the rope's line queries panic for an
\* offset beyond the text
motion_panics(t, region, motion) ==
    \/ region.head > Len(t)
    \/ /\ motion.kind \in {"NextWordBoundary", "PrevWordBoundary"}
       /\ scan_panics(t, region.head)

\* ------------------------------------------------------------------ Buffer
\* A Buffer value: the struct's fields, and whether an operation on it panicked.
\* Every operation yields the set of Buffer values it can end in.
Buffer_new_from_string(str) ==
    [ text |-> str,
      engine |-> Engine_new(str),
      regions |-> BufferRegions_default,
      undo_history |-> UndoHistory_default,
      last_edit_type |-> "Other",
      panicked |-> FALSE ]

panic(b) == { [b EXCEPT !.panicked = TRUE] }

\* Buffer::content_to_string
content_to_string(b) == get_head(b.engine)

\* BufferRegions::carets panics in a build with debug assertions when the
\* caret list is not strictly ordered
carets_panics(br, dbg) == dbg /\ ~carets_strictly_ordered(br)

\* the two calls commit_delta makes on the undo history, start_new_undo_group
\* when the edit type changed and then calculate_undo_id
calculate_undo_id(u, new_undo_group) == perform_edit(u, new_undo_group)

\* Buffer::commit_delta
commit_delta(b, delta, edit_type) ==
    LET u == calculate_undo_id(b.undo_history, b.last_edit_type # edit_type)
        undo_group == u.cur_undo_gid
        e == edit_rev(b.engine, undo_group, delta)
    IN  IF delta_splits_char(delta, b.text) THEN panic(b)
        ELSE { [ text |-> get_head(e),
                 engine |-> e,
                 regions |-> r,
                 undo_history |-> u,
                 last_edit_type |-> edit_type,
                 panicked |-> FALSE ] : r \in BufferRegions_apply_delta(b.regions, delta) }

\* the DeltaBuilder loops of insert_at_carets and delete_at_carets
RECURSIVE insert_builder(_, _, _, _)
insert_builder(cs, i, str, bld) ==
    IF i > Len(cs) THEN bld
    ELSE insert_builder(cs, i + 1, str,
            builder_replace(bld, range_start(cs[i]), range_end(cs[i]), str))

RECURSIVE delete_builder(_, _, _, _, _)
delete_builder(cs, i, traj, len, bld) ==
    IF i > Len(cs) THEN bld
    ELSE LET head == cs[i].head
         IN  delete_builder(cs, i + 1, traj, len,
                IF traj = "Forwards"
                THEN builder_delete(bld, head, Min(len, head + 1))
                ELSE builder_delete(bld, Max(1, head) - 1, head))

\* Buffer::insert_at_carets
insert_at_carets(b, str, dbg) ==
    LET delta == builder_build(insert_builder(carets_of(b.regions), 1, str, builder_new),
                               Len(b.text))
    IN  IF carets_panics(b.regions, dbg) \/ ~delta.sorted THEN panic(b)
        ELSE commit_delta(b, delta, "Insert")

\* Buffer::delete_at_carets
delete_at_carets(b, traj, dbg) ==
    LET delta == builder_build(
                    delete_builder(carets_of(b.regions), 1, traj, Len(b.text), builder_new),
                    Len(b.text))
    IN  IF carets_panics(b.regions, dbg) \/ ~delta.sorted THEN panic(b)
        ELSE commit_delta(b, delta, "Delete")

\* the part Buffer::undo and Buffer::redo share once the history has moved
after_history_move(b, u) ==
    LET e == Engine_undo(b.engine, u.currently_undone)
        delta == try_delta_rev_head(e, b.engine.undone_groups)
    IN  { [ text |-> get_head(e),
            engine |-> e,
            regions |-> r,
            undo_history |-> u,
            last_edit_type |-> "Other",
            panicked |-> FALSE ] : r \in BufferRegions_apply_delta(b.regions, delta) }

\* the debug assertions of UndoHistory::undo and UndoHistory::redo
undo_assert_fails(u, dbg) ==
    dbg /\ can_undo(u) /\ get_active_undo_id(u) \in u.currently_undone
redo_assert_fails(u, dbg) ==
    dbg /\ can_redo(u) /\ history_at(u, u.cur_history_idx + 1) \notin u.currently_undone

\* Buffer::undo
Buffer_undo(b, dbg) ==
    IF ~can_undo(b.undo_history) THEN {b}
    ELSE IF undo_assert_fails(b.undo_history, dbg) THEN panic(b)
    ELSE after_history_move(b, UndoHistory_undo(b.undo_history, dbg))

\* Buffer::redo
Buffer_redo(b, dbg) ==
    IF ~can_redo(b.undo_history) THEN {b}
    ELSE IF redo_assert_fails(b.undo_history, dbg) THEN panic(b)
    ELSE after_history_move(b, UndoHistory_redo(b.undo_history, dbg))

\* Buffer::jump_caret_to_position: the offset it resolves, and the buffer
jump_offset(b, coords, snap) ==
    IF snap THEN to_offset(coords, b.text)
    ELSE Some(to_offset_snapping(coords, b.text))

jump_caret_to_position(b, coords, snap) ==
    LET offset == jump_offset(b, coords, snap)
    IN  IF offset # None
        THEN { [b EXCEPT !.regions = r] :
                 r \in set_primary_caret(collapse_carets_into_primary(b.regions),
                                         sticky_cursor(Unwrap(offset))) }
        ELSE {b}

\* what Buffer::jump_caret_to_position returns
jump_returns(b, coords, snap) == jump_offset(b, coords, snap) # None

\* BufferRegions::update_carets with the motion closure of Move / Selection
update_carets_motion(b, vp, only_move_head, motion) ==
    IF \E i \in 1..Len(b.regions.carets) :
          motion_panics(b.text, b.regions.regions[b.regions.carets[i]], motion)
    THEN panic(b)
    ELSE { [b EXCEPT !.regions = r] :
             r \in make_carets_consistent(
                     [b.regions EXCEPT !.regions =
                        [id \in DOMAIN b.regions.regions |->
                           IF \E i \in 1..Len(b.regions.carets) : b.regions.carets[i] = id
                           THEN apply_motion_to_region(b.text, vp, b.regions.regions[id],
                                                       only_move_head, motion)
                           ELSE b.regions.regions[id]]]) }

\* Buffer::move_carets (BufferOp::Move)
move_carets(b, vp, motion) == update_carets_motion(b, vp, FALSE, motion)

\* BufferOp::Selection
Buffer_selection(b, vp, motion) == update_carets_motion(b, vp, TRUE, motion)

\* BufferOp::NewCaret: the motion is applied to the first caret of the list
new_caret_target(b, vp, motion) ==
    apply_motion_to_region(b.text, vp, carets_of(b.regions)[1], FALSE, motion)

Buffer_new_caret(b, vp, motion, dbg) ==
    IF carets_panics(b.regions, dbg) \/ motion_panics(b.text, carets_of(b.regions)[1], motion)
    THEN panic(b)
    ELSE IF new_caret_target(b, vp, motion) # carets_of(b.regions)[1]
    THEN { [b EXCEPT !.regions = r] :
             r \in add_caret(b.regions, TRUE, new_caret_target(b, vp, motion)) }
    ELSE {b}

\* ------------------------------------------------------------------ state
VARIABLES
    debug_assertions,   \* cfg!(debug_assertions) of the build
    text,               \* Buffer.text
    engine,             \* Buffer.engine
    regions,            \* Buffer.regions
    undo_history,       \* Buffer.undo_history
    last_edit_type,     \* Buffer.last_edit_type
    panicked,           \* an operation panicked
    recorded,           \* the head text at the end of each group of the history
    rope,               \* Document::write_to_file: the rope the save task holds
    snapshot,           \* the head text when that rope was taken
    tmp_file,           \* write_rope_to_file: the contents of the .swp file
    file,               \* the contents of the file at the document's path
    view,               \* View: vp, the viewport of the view onto the buffer
    input_mapper,       \* InputMapper: keymaps, stack, buffered_inputs
    returned,           \* what the last call on the InputMapper returned
    invocations,        \* StewSessionBase.invocations: the ids with a oneshot sender
    stew_send,          \* the calls sent to stew that stew has not answered
    stew_recv,          \* the messages stew sent that the receive task has not taken
    caller,             \* the task calling the session: its position and its oneshot
    dropped             \* the invocation ids whose response the receive task dropped

\* the variables outside the Buffer
document_vars == << rope, snapshot, tmp_file, file >>
mapper_vars == << input_mapper, returned >>
session_vars == << invocations, stew_send, stew_recv, caller, dropped >>
others == << document_vars, view, mapper_vars, session_vars >>

\* no document is being saved, no InputMapper and no session is in use
document_unused == rope = None /\ snapshot = None /\ tmp_file = None /\ file = None
mapper_unused == input_mapper = None /\ returned = None
session_unused ==
    /\ invocations = << >>
    /\ stew_send = {}
    /\ stew_recv = << >>
    /\ caller = None
    /\ dropped = {}

vars == << debug_assertions, text, engine, regions, undo_history, last_edit_type,
           panicked, recorded, others >>

\* the Buffer the variables hold
Buf ==
    [ text |-> text, engine |-> engine, regions |-> regions,
      undo_history |-> undo_history, last_edit_type |-> last_edit_type,
      panicked |-> panicked ]

SetBufInit(b) ==
    /\ text = b.text
    /\ engine = b.engine
    /\ regions = b.regions
    /\ undo_history = b.undo_history
    /\ last_edit_type = b.last_edit_type
    /\ panicked = b.panicked
    /\ document_unused
    /\ view = [vp |-> Viewport(0, 1)]
    /\ mapper_unused
    /\ session_unused

SetBuf(b) ==
    /\ text' = b.text
    /\ engine' = b.engine
    /\ regions' = b.regions
    /\ undo_history' = b.undo_history
    /\ last_edit_type' = b.last_edit_type
    /\ panicked' = b.panicked
    /\ UNCHANGED others

\* the texts a Buffer is created from
InitTexts == { <<>> }

Viewports == { Viewport(f, MaxViewport - f) : f \in 0..MaxViewport }

\* the strings and motions of the editing specification
EditTexts == { <<"a">>, <<Lead, Cont>> }
HorizontalInputs == { <<Viewport(0, 0), Motion(k, "Both")>> : k \in {"Left", "Right"} }

\* the (viewport, motion) pairs an operation is called with; only the viewport
\* motions read the viewport
MotionInputs ==
    { <<vp, m>> \in Viewports \X Motions :
        m.kind \in {"TopOfViewport", "BottomOfViewport"} \/ vp = Viewport(0, MaxViewport) }

\* the pairs that stay within the line of the caret
LineMotionInputs ==
    { in \in MotionInputs :
        in[2].kind \notin {"Up", "Down", "TopOfViewport", "BottomOfViewport"} }

\* the coordinates a jump is called with
Positions == { Position(l, c) : l \in 0..MaxViewport, c \in 0..MaxViewport }

\* what UndoHistory::undo and UndoHistory::redo return
undo_returns(u) == can_undo(u)
redo_returns(u) == can_redo(u)

\* the text recorded for the group an edit was committed under
record_commit(rec, u, b) ==
    IF b.undo_history.cur_undo_gid # u.cur_undo_gid
    THEN Append(SubSeq(rec, 1, u.cur_history_idx + 1), b.text)
    ELSE [rec EXCEPT ![u.cur_history_idx + 1] = b.text]

\* Buffer::new_from_string / Buffer::new_empty
Init ==
    /\ debug_assertions \in BOOLEAN
    /\ \E str \in InitTexts :
          /\ SetBufInit(Buffer_new_from_string(str))
          /\ recorded = <<str>>

\* an edit the bounds admit
WithinBounds(b, max_len, max_revs) ==
    Len(b.engine.union) <= max_len /\ Len(b.engine.revs) <= max_revs

\* BufferOp::Insert
DoInsert(texts, max_len, max_revs) ==
    /\ ~panicked
    /\ \E str \in texts : \E b \in insert_at_carets(Buf, str, debug_assertions) :
          /\ WithinBounds(b, max_len, max_revs)
          /\ SetBuf(b)
          /\ recorded' = IF b.panicked THEN recorded
                         ELSE record_commit(recorded, undo_history, b)
    /\ UNCHANGED debug_assertions

\* BufferOp::Delete
DoDelete(max_len, max_revs) ==
    /\ ~panicked
    /\ \E traj \in {"Forwards", "Backwards"} :
       \E b \in delete_at_carets(Buf, traj, debug_assertions) :
          /\ WithinBounds(b, max_len, max_revs)
          /\ SetBuf(b)
          /\ recorded' = IF b.panicked THEN recorded
                         ELSE record_commit(recorded, undo_history, b)
    /\ UNCHANGED debug_assertions

\* BufferOp::Undo
DoUndo ==
    /\ ~panicked
    /\ \E b \in Buffer_undo(Buf, debug_assertions) : SetBuf(b)
    /\ UNCHANGED << debug_assertions, recorded >>

\* BufferOp::Redo
DoRedo ==
    /\ ~panicked
    /\ \E b \in Buffer_redo(Buf, debug_assertions) : SetBuf(b)
    /\ UNCHANGED << debug_assertions, recorded >>

\* BufferOp::Move
DoMove(inputs) ==
    /\ ~panicked
    /\ \E in \in inputs :
       \E b \in move_carets(Buf, in[1], in[2]) : SetBuf(b)
    /\ UNCHANGED << debug_assertions, recorded >>

\* BufferOp::Selection
DoSelection(inputs) ==
    /\ ~panicked
    /\ \E in \in inputs :
       \E b \in Buffer_selection(Buf, in[1], in[2]) : SetBuf(b)
    /\ UNCHANGED << debug_assertions, recorded >>

\* BufferOp::NewCaret
DoNewCaret(inputs, max_regions) ==
    /\ ~panicked
    /\ \E in \in inputs :
       \E b \in Buffer_new_caret(Buf, in[1], in[2], debug_assertions) :
          /\ Cardinality(DOMAIN b.regions.regions) <= max_regions
          /\ SetBuf(b)
    /\ UNCHANGED << debug_assertions, recorded >>

\* Buffer::jump_caret_to_position
DoJump(positions) ==
    /\ ~panicked
    /\ \E coords \in positions, snap \in BOOLEAN :
          \E b \in jump_caret_to_position(Buf, coords, snap) : SetBuf(b)
    /\ UNCHANGED << debug_assertions, recorded >>

\* Every operation of the Buffer, with several carets.  The motions the
\* operations are called with stay within the line.
Next ==
    \/ DoInsert(InsertTexts, MaxLen, MaxRevs)
    \/ DoDelete(MaxLen, MaxRevs)
    \/ DoUndo
    \/ DoRedo
    \/ DoMove(LineMotionInputs)
    \/ DoSelection(LineMotionInputs)
    \/ DoNewCaret(LineMotionInputs, MaxRegions)
    \/ DoJump(Positions)

Spec == Init /\ [][Next]_vars

\* ------------------------------------------------------------------ UndoHistory alone
\* UndoHistory::perform_edit
DoPerformEdit ==
    /\ ~panicked
    /\ \E new_undo_group \in BOOLEAN :
          /\ perform_edit(undo_history, new_undo_group).cur_undo_gid <= MaxGroups
          /\ undo_history' = perform_edit(undo_history, new_undo_group)
    /\ UNCHANGED << debug_assertions, text, engine, regions, last_edit_type, panicked, recorded,
                    others >>

\* UndoHistory::undo
DoHistoryUndo ==
    /\ ~panicked
    /\ IF undo_assert_fails(undo_history, debug_assertions)
       THEN panicked' = TRUE /\ UNCHANGED undo_history
       ELSE undo_history' = UndoHistory_undo(undo_history, debug_assertions)
            /\ UNCHANGED panicked
    /\ UNCHANGED << debug_assertions, text, engine, regions, last_edit_type, recorded, others >>

\* UndoHistory::redo
DoHistoryRedo ==
    /\ ~panicked
    /\ IF redo_assert_fails(undo_history, debug_assertions)
       THEN panicked' = TRUE /\ UNCHANGED undo_history
       ELSE undo_history' = UndoHistory_redo(undo_history, debug_assertions)
            /\ UNCHANGED panicked
    /\ UNCHANGED << debug_assertions, text, engine, regions, last_edit_type, recorded, others >>

NextUndo == DoPerformEdit \/ DoHistoryUndo \/ DoHistoryRedo

SpecUndo == Init /\ [][NextUndo]_vars

\* ------------------------------------------------------------------ BufferRegions alone
\* the regions and deltas the mutators of BufferRegions are called with
RegionInputs == { Region_sticky(h, t) : h \in 0..MaxOffset, t \in 0..MaxOffset }
DeltaInputs ==
    { builder_build(builder_delete(builder_new, 0, 1), MaxOffset),
      builder_build(builder_replace(builder_new, 1, 1, <<"a">>), MaxOffset - 1) }

SetRegions(r) ==
    /\ regions' = r
    /\ UNCHANGED << debug_assertions, text, engine, undo_history, last_edit_type,
                    panicked, recorded, others >>

\* BufferRegions::add_caret
DoAddCaret ==
    \E make_primary \in BOOLEAN, region \in RegionInputs :
    \E r \in add_caret(regions, make_primary, region) :
        Cardinality(DOMAIN r.regions) <= MaxCarets /\ SetRegions(r)

\* BufferRegions::set_primary_caret
DoSetPrimaryCaret ==
    \E region \in RegionInputs : \E r \in set_primary_caret(regions, region) : SetRegions(r)

\* BufferRegions::update_carets, with a closure that may move any caret
DoUpdateCarets ==
    \E f \in [{ id \in DOMAIN regions.regions : is_caret(regions, id) } -> RegionInputs] :
    \E r \in update_carets(regions, f) : SetRegions(r)

\* BufferRegions::update_regions, with a closure that may move any region
DoUpdateRegions ==
    \E f \in [DOMAIN regions.regions -> RegionInputs] :
    \E r \in update_regions(regions, f) : SetRegions(r)

\* BufferRegions::apply_delta
DoApplyDelta ==
    \E d \in DeltaInputs : \E r \in BufferRegions_apply_delta(regions, d) : SetRegions(r)

\* BufferRegions::collapse_selections
DoCollapseSelections ==
    \E r \in collapse_selections(regions) : SetRegions(r)

\* BufferRegions::collapse_carets_into_primary
DoCollapseCaretsIntoPrimary ==
    SetRegions(collapse_carets_into_primary(regions))

NextRegions ==
    \/ DoAddCaret
    \/ DoSetPrimaryCaret
    \/ DoUpdateCarets
    \/ DoUpdateRegions
    \/ DoApplyDelta
    \/ DoCollapseSelections
    \/ DoCollapseCaretsIntoPrimary

SpecRegions == Init /\ [][NextRegions]_vars

\* The editing operations with one caret that moves and selects within the
\* line, on longer texts and histories.
NextEdit ==
    \/ DoInsert(EditTexts, EditMaxLen, EditMaxRevs)
    \/ DoDelete(EditMaxLen, EditMaxRevs)
    \/ DoUndo
    \/ DoRedo
    \/ DoMove(HorizontalInputs)
    \/ DoSelection(HorizontalInputs)

SpecEdit == Init /\ [][NextEdit]_vars

\* ------------------------------------------------------------------ motions on any text
\* the UTF-8 strings of "a", "\n" and U+00E9 of at most n bytes
is_utf8(str) ==
    \A i \in 1..Len(str) :
        /\ str[i] = Lead => (i < Len(str) /\ str[i + 1] = Cont)
        /\ str[i] = Cont => (i > 1 /\ str[i - 1] = Lead)

Strings(n) ==
    { str \in UNION { [1..k -> {"a", "\n", Lead, Cont}] : k \in 0..n } : is_utf8(str) }

MotionTexts == Strings(MotionMaxLen)

\* Buffer::new_from_string with any text
InitMotion ==
    /\ debug_assertions \in BOOLEAN
    /\ \E str \in MotionTexts :
          /\ SetBufInit(Buffer_new_from_string(str))
          /\ recorded = <<str>>

\* The operations that move the caret of a Buffer created from any text.
NextMotion ==
    \/ DoMove(MotionInputs)
    \/ DoSelection(MotionInputs)
    \/ DoJump(Positions)

SpecMotion == InitMotion /\ [][NextMotion]_vars

\* ------------------------------------------------------------------ edits between motions
\* Buffer::new_from_string with any text of the bound
InitColumn ==
    /\ debug_assertions \in BOOLEAN
    /\ \E str \in Strings(ColumnMaxLen) :
          /\ SetBufInit(Buffer_new_from_string(str))
          /\ recorded = <<str>>

\* Edits at the caret between the motions of the caret.
NextColumn ==
    \/ DoInsert(InsertTexts, ColumnMaxLen, ColumnMaxRevs)
    \/ DoDelete(ColumnMaxLen, ColumnMaxRevs)
    \/ DoMove(MotionInputs)
    \/ DoSelection(MotionInputs)

SpecColumn == InitColumn /\ [][NextColumn]_vars

\* ------------------------------------------------------------------ word motions
\* the UTF-8 strings of a word character, a space, a punctuation mark, a
\* control character and U+00E9
WordTexts ==
    { str \in UNION { [1..k -> {"a", " ", ".", Ctrl, Lead, Cont}] : k \in 0..WordMaxLen } :
        is_utf8(str) }

\* the word boundary motions, and Left and Right
WordInputs ==
    { in \in MotionInputs :
        in[2].kind \in {"NextWordBoundary", "PrevWordBoundary", "Left", "Right"} }

\* Buffer::new_from_string with a text of words
InitWords ==
    /\ debug_assertions \in BOOLEAN
    /\ \E str \in WordTexts :
          /\ SetBufInit(Buffer_new_from_string(str))
          /\ recorded = <<str>>

\* The motions along the words of a text.
NextWords ==
    \/ DoMove(WordInputs)
    \/ DoSelection(WordInputs)

SpecWords == InitWords /\ [][NextWords]_vars

\* ------------------------------------------------------------------ properties
\* the buffers one more operation with a caret motion leaves
after_motion(b, dbg) ==
    UNION { move_carets(b, in[1], in[2]) \cup Buffer_selection(b, in[1], in[2])
              \cup Buffer_new_caret(b, in[1], in[2], dbg) : in \in MotionInputs }

\* consecutive carets a, b: a.head < b.head and a.range().end < b.range().start
carets_apart(br) ==
    \A i \in 1..(Len(br.carets) - 1) :
        LET a == br.regions[br.carets[i]]
            b == br.regions[br.carets[i + 1]]
        IN  a.head < b.head /\ range_end(a) < range_start(b)

\* C1: after any sequence of Buffer operations the carets are strictly ascending
\* by head and the ranges of consecutive carets neither overlap nor touch, so
\* the assertion of carets() holds; one more Move, Selection or NewCaret with
\* any motion, the vertical ones included, leaves them so as well.
C1_CaretsStrictlyOrdered ==
    /\ carets_apart(regions)
    /\ ~carets_panics(regions, TRUE)
    /\ \A b \in after_motion(Buf, debug_assertions) :
          carets_apart(b.regions) /\ ~carets_panics(b.regions, TRUE)

\* two carets of a text, one of them a selection
C1_Witness ==
    /\ ~panicked
    /\ Len(regions.carets) = 2
    /\ text # <<>>
    /\ \E i \in 1..2 : ~is_cursor(regions.regions[regions.carets[i]])

\* C2: after any sequence of BufferRegions mutations the caret list is not
\* empty, every id of it is a key of the regions map, and the primary caret id
\* is an element of the caret list.
C2_CaretsResolve ==
    /\ Len(regions.carets) >= 1
    /\ \A i \in 1..Len(regions.carets) : regions.carets[i] \in DOMAIN regions.regions
    /\ is_caret(regions, regions.primary_caret_id)

\* carets were merged, the primary caret among them, and two carets remain
C2_Witness ==
    /\ Len(regions.carets) = 2
    /\ Cardinality(DOMAIN regions.regions) = 3
    /\ regions.primary_caret_id = regions.carets[1]
    /\ ~is_cursor(regions.regions[regions.primary_caret_id])

\* C3: at history position i the buffer shows the text T_i recorded at the end
\* of group i, whatever interleaving of Undo and Redo led there.
C3_ShowsRecordedText ==
    ~panicked => text = recorded[undo_history.cur_history_idx + 1]

\* the number of characters of a string
char_count(str) == Cardinality({ k \in 1..Len(str) : str[k] # Cont })

\* n Delete(Backwards) operations
RECURSIVE backspaces(_, _, _)
backspaces(bs, n, dbg) ==
    IF n = 0 THEN bs
    ELSE backspaces(UNION { IF b.panicked THEN {b} ELSE delete_at_carets(b, "Backwards", dbg)
                              : b \in bs },
                    n - 1, dbg)

caret_offsets(br) == [i \in 1..Len(br.carets) |-> br.regions[br.carets[i]].head]

\* C4: when every caret is a cursor, Insert(s) followed by as many
\* Delete(Backwards) as s has characters restores the content and the offset of
\* every caret.
C4_InsertBackspaceRoundTrip ==
    (~panicked /\ \A i \in 1..Len(regions.carets) : is_cursor(regions.regions[regions.carets[i]]))
    => \A str \in EditTexts :
       \A b \in backspaces(insert_at_carets(Buf, str, debug_assertions),
                           char_count(str), debug_assertions) :
          /\ ~b.panicked
          /\ content_to_string(b) = content_to_string(Buf)
          /\ caret_offsets(b.regions) = caret_offsets(regions)

\* C5: Undo at history index 0 and Redo at the last history index return false
\* and leave the text, the regions and the undo history as they are, without
\* raising an error.
C5_NothingToUndoOrRedo ==
    /\ undo_history.cur_history_idx = 0
         => /\ ~undo_returns(undo_history)
            /\ UndoHistory_undo(undo_history, debug_assertions) = undo_history
            /\ Buffer_undo(Buf, debug_assertions) = {Buf}
    /\ undo_history.cur_history_idx = Len(undo_history.history) - 1
         => /\ ~redo_returns(undo_history)
            /\ UndoHistory_redo(undo_history, debug_assertions) = undo_history
            /\ Buffer_redo(Buf, debug_assertions) = {Buf}

\* everything was undone: there is nothing to undo, and text to redo
C5_Witness ==
    /\ ~panicked
    /\ undo_history.cur_history_idx = 0
    /\ Len(undo_history.history) = 3
    /\ text = <<>>

\* the undo groups that were cut out of the history
discarded_groups(u) ==
    { g \in 1..u.cur_undo_gid : \A n \in 1..Len(u.history) : u.history[n] # g }

\* C6: the groups an edit after an Undo discards stay undone: their ids are in
\* currently_undone and none of their text is part of the head text.
C6_DiscardedStayUndone ==
    ~panicked =>
      \A g \in discarded_groups(undo_history) :
         /\ g \in undo_history.currently_undone
         /\ \A k \in 1..Len(engine.union) :
               engine.union[k].ins = g => ~visible(engine.union[k], engine.undone_groups)

\* C7: two Inserts back to back at the tip of the history are one undo group,
\* and a single Undo after them shows the text from before the first.
C7_SameTypeOneUndo ==
    (~panicked /\ last_edit_type # "Insert")
    => \A s1 \in EditTexts, s2 \in EditTexts :
       \A b1 \in insert_at_carets(Buf, s1, debug_assertions) :
       \A b2 \in insert_at_carets(b1, s2, debug_assertions) :
          /\ b1.undo_history.cur_undo_gid = undo_history.cur_undo_gid + 1
          /\ b2.undo_history.cur_undo_gid = b1.undo_history.cur_undo_gid
          /\ \A b3 \in Buffer_undo(b2, debug_assertions) : b3.text = text

\* the logged deltas replayed in commit order, those of the undone groups left
\* out; None when a delta does not fit the text it is replayed on
RECURSIVE replay(_, _, _)
replay(revs, undone, t) ==
    IF revs = <<>> THEN Some(t)
    ELSE LET r == Head(revs)
         IN  IF r.undo_group \in undone THEN replay(Tail(revs), undone, t)
             ELSE IF r.delta.base_len # Len(t) THEN None
             ELSE replay(Tail(revs), undone, apply_els(r.delta.els, t))

\* C8: the head text is the replay of the logged deltas whose undo group is not
\* in currently_undone, and Buffer.text is the head of the engine.
C8_HeadIsReplay ==
    /\ text = get_head(engine)
    /\ replay(engine.revs, undo_history.currently_undone, <<>>) = Some(get_head(engine))

\* an edit was undone and another one made in its place
C8_Witness ==
    /\ ~panicked
    /\ debug_assertions
    /\ Len(engine.revs) = 3
    /\ undo_history.currently_undone # {}
    /\ text # <<>>

\* C9: cur_history_idx < history.len(), no id at an index up to cur_history_idx
\* is in currently_undone, every id at a later index is, and the debug
\* assertions of undo and redo do not fail.
C9_HistoryInvariant ==
    /\ ~panicked
    /\ undo_history.cur_history_idx < Len(undo_history.history)
    /\ \A n \in 0..(Len(undo_history.history) - 1) :
          (n <= undo_history.cur_history_idx)
             <=> (history_at(undo_history, n) \notin undo_history.currently_undone)

\* C10: perform_edit with new_group = true, or away from the last index,
\* returns cur_undo_gid + 1, an id in neither history nor currently_undone, cuts
\* the history after the old cur_history_idx, appends the id, points
\* cur_history_idx at it and leaves currently_undone alone.
C10_PerformEditNewGroup ==
    \A new_group \in BOOLEAN :
       (new_group \/ undo_history.cur_history_idx # Len(undo_history.history) - 1)
       => LET after == perform_edit(undo_history, new_group)
              id == after.cur_undo_gid
          IN  /\ id = undo_history.cur_undo_gid + 1
              /\ \A n \in 1..Len(undo_history.history) : undo_history.history[n] # id
              /\ id \notin undo_history.currently_undone
              /\ after.history =
                   Append(SubSeq(undo_history.history, 1, undo_history.cur_history_idx + 1), id)
              /\ after.cur_history_idx = Len(after.history) - 1
              /\ after.currently_undone = undo_history.currently_undone

\* an edit has cut undone groups out of the history
C10_Witness ==
    /\ ~panicked
    /\ Len(undo_history.history) = 3
    /\ undo_history.cur_undo_gid = 4
    /\ undo_history.cur_history_idx = 2

\* C11: perform_edit(false) at the last index of the history returns the
\* current cur_undo_gid and leaves cur_undo_gid, history, cur_history_idx and
\* currently_undone as they are.
C11_PerformEditSameGroup ==
    undo_history.cur_history_idx = Len(undo_history.history) - 1
    => LET after == perform_edit(undo_history, FALSE)
       IN  /\ after.cur_undo_gid = undo_history.cur_undo_gid
           /\ after.history = undo_history.history
           /\ after.cur_history_idx = undo_history.cur_history_idx
           /\ after.currently_undone = undo_history.currently_undone

\* at the last index, after an edit took the place of an undone group
C11_Witness ==
    /\ ~panicked
    /\ undo_history.history = <<0, 2>>
    /\ undo_history.cur_history_idx = 1

\* the length in bytes of a line, without its line break
line_len(t, line) ==
    LET last_line == line_of_offset(t, Len(t))
    IN  IF line < last_line
        THEN offset_of_line(t, line + 1) - 1 - offset_of_line(t, line)
        ELSE Len(t) - offset_of_line(t, line)

\* the position is on a line of the text, at a column within that line
addresses(pos, t) ==
    /\ pos.line <= line_of_offset(t, Len(t))
    /\ pos.col <= line_len(t, pos.line)

\* the coordinates in and around every text of the motion specification
AllPositions ==
    { Position(l, c) : l \in 0..(MotionMaxLen + 1), c \in 0..(MotionMaxLen + 1) }

\* C12: jump_caret_to_position(pos, snap = false) with a position that does not
\* exist in the text (a line beyond the last line, or a column beyond the length
\* of the line) returns false and changes nothing in the buffer.
C12_JumpWithoutSnapRejects ==
    ~panicked =>
        \A pos \in AllPositions :
            ~addresses(pos, text)
            => /\ ~jump_returns(Buf, pos, FALSE)
               /\ jump_caret_to_position(Buf, pos, FALSE) = {Buf}

\* C13: jump_caret_to_position(pos, snap = true) returns true for every
\* position, and afterwards the buffer has exactly one caret, the primary one,
\* a cursor at to_offset_snapping(pos).
C13_JumpWithSnapLands ==
    ~panicked =>
        \A pos \in AllPositions :
            /\ jump_returns(Buf, pos, TRUE)
            /\ \A b \in jump_caret_to_position(Buf, pos, TRUE) :
                  /\ b.regions.carets = << b.regions.primary_caret_id >>
                  /\ b.regions.regions[b.regions.primary_caret_id]
                        = sticky_cursor(to_offset_snapping(pos, text))

\* the text with the range of each of the carets i..Len(cs) replaced by str
RECURSIVE replace_ranges(_, _, _, _)
replace_ranges(t, cs, i, str) ==
    IF i > Len(cs) THEN t
    ELSE LET rest == replace_ranges(t, cs, i + 1, str)
         IN  SubSeq(rest, 1, range_start(cs[i])) \o str
               \o SubSeq(rest, range_end(cs[i]) + 1, Len(rest))

\* the number of bytes the ranges of the carets before caret i cover
RECURSIVE covered_before(_, _)
covered_before(cs, i) ==
    IF i <= 1 THEN 0
    ELSE covered_before(cs, i - 1) + range_end(cs[i - 1]) - range_start(cs[i - 1])

\* C14: Insert(str) replaces the range of every caret by str, leaves the text
\* outside the ranges as it is, and leaves every caret a cursor right after its
\* copy of str, in every reachable state.
C14_InsertReplacesRanges ==
    ~panicked =>
        LET cs == carets_of(regions)
        IN  \A str \in InsertTexts :
            \A b \in insert_at_carets(Buf, str, debug_assertions) :
               /\ ~b.panicked
               /\ b.text = replace_ranges(text, cs, 1, str)
               /\ content_to_string(b) = b.text
               /\ Len(b.regions.carets) = Len(cs)
               /\ \A i \in 1..Len(cs) :
                     LET c == b.regions.regions[b.regions.carets[i]]
                     IN  /\ is_cursor(c)
                         /\ c.head = range_start(cs[i]) + i * Len(str) - covered_before(cs, i)

\* the offsets of the character before the offset k, and of the one after it
char_before(t, k) == { j \in 1..k : \A i \in j..(k - 1) : t[i + 1] = Cont }
char_after(t, k) == { j \in (k + 1)..Len(t) : \A i \in (k + 2)..j : t[i] = Cont }

\* the bytes of t that are not at the offsets of gone
keep_bytes(t, gone) ==
    LET kept == { k \in 1..Len(t) : k \notin gone }
        nth(n) == CHOOSE k \in kept : Cardinality({ j \in kept : j < k }) = n - 1
    IN  [n \in 1..Cardinality(kept) |-> t[nth(n)]]

\* the text without the character before (after) the head of each caret
without_chars(t, cs, traj) ==
    keep_bytes(t, UNION { IF traj = "Backwards" THEN char_before(t, cs[i].head)
                          ELSE char_after(t, cs[i].head) : i \in 1..Len(cs) })

\* C15: Delete(Backwards) removes the one character before the head of each
\* caret and Delete(Forwards) the one after it, whatever the tail is; for a head
\* at offset 0 (Backwards) or at the text length (Forwards) nothing is removed,
\* and no Delete panics.
C15_DeleteOneCharacter ==
    ~panicked =>
        \A traj \in {"Forwards", "Backwards"} :
        \A b \in delete_at_carets(Buf, traj, debug_assertions) :
           /\ ~b.panicked
           /\ content_to_string(b) = without_chars(text, carets_of(regions), traj)

\* the regions of the carets, with either stickyness
caret_regions ==
    { [regions.regions[regions.carets[i]] EXCEPT !.stickyness = s] :
        i \in 1..Len(regions.carets), s \in {"Sticky", "NonSticky"} }

\* C16: for every motion the region apply_motion_to_region returns keeps the
\* stickyness and has its head at the offset the motion resolves to, which does
\* not depend on only_move_head; with only_move_head the tail stays, without it
\* the tail is the new head, so that after Move every caret is a cursor.
C16_MotionFrame ==
    ~panicked =>
        \A in \in MotionInputs :
           /\ \A r \in { r \in caret_regions : ~motion_panics(text, r, in[2]) } :
                 LET selected == apply_motion_to_region(text, in[1], r, TRUE, in[2])
                     moved == apply_motion_to_region(text, in[1], r, FALSE, in[2])
                 IN  /\ selected.stickyness = r.stickyness
                     /\ moved.stickyness = r.stickyness
                     /\ selected.tail = r.tail
                     /\ moved.tail = moved.head
                     /\ selected.head = moved.head
           /\ \A b \in move_carets(Buf, in[1], in[2]) :
                 ~b.panicked
                 => \A i \in 1..Len(b.regions.carets) :
                       is_cursor(b.regions.regions[b.regions.carets[i]])

\* a selection on the second line, made by a vertical motion
C16_Witness ==
    /\ ~panicked
    /\ LET r == regions.regions[regions.primary_caret_id]
       IN  /\ r.tail = 0
           /\ r.head > 1
           /\ line_of_offset(text, r.head) = 1
           /\ r.preferred_column # None

\* the offsets at which a character of the text starts, and the text length
boundaries(t) == { k \in 0..Len(t) : k = Len(t) \/ t[k + 1] # Cont }

\* the largest of a set of offsets, the smallest, and h for the empty set
largest(offsets, h) ==
    IF offsets = {} THEN h ELSE CHOOSE k \in offsets : \A j \in offsets : j <= k
smallest(offsets, h) ==
    IF offsets = {} THEN h ELSE CHOOSE k \in offsets : \A j \in offsets : k <= j

\* the eight motions that take no word boundary type
SimpleInputs == { in \in MotionInputs : in[2].kind \notin {"NextWordBoundary", "PrevWordBoundary"} }

\* the buffers a Move or a Selection with the input ends in
moved_or_selected(b, in) == move_carets(b, in[1], in[2]) \cup Buffer_selection(b, in[1], in[2])

head_of(b) == b.regions.regions[b.regions.primary_caret_id].head

\* two Moves of one vertical motion
moved_twice(b, in) ==
    UNION { IF b1.panicked THEN {b1} ELSE move_carets(b1, in[1], in[2])
              : b1 \in move_carets(b, in[1], in[2]) }

\* C18: for a caret at column c of line L, with line L+1 shorter than c and
\* line L+2 at least c long, Move(Down) puts the caret at the end of line L+1
\* and a second Move(Down) at column c of line L+2, in every reachable state,
\* after edits too; likewise for Up with the lines L-1 and L-2.
C18_ColumnMemory ==
    ~panicked =>
        LET L == line_of_offset(text, head_of(Buf))
            c == head_of(Buf) - offset_of_line(text, L)
            last_line == line_of_offset(text, Len(text))
            down == <<Viewport(0, MaxViewport), Motion("Down", "Both")>>
            up == <<Viewport(0, MaxViewport), Motion("Up", "Both")>>
        IN  /\ (L + 2 <= last_line /\ line_len(text, L + 1) < c /\ line_len(text, L + 2) >= c)
               => /\ \A b \in move_carets(Buf, down[1], down[2]) :
                        /\ ~b.panicked
                        /\ head_of(b) = offset_of_line(text, L + 1) + line_len(text, L + 1)
                  /\ \A b \in moved_twice(Buf, down) :
                        /\ ~b.panicked
                        /\ head_of(b) = offset_of_line(text, L + 2) + c
            /\ (L >= 2 /\ line_len(text, L - 1) < c /\ line_len(text, L - 2) >= c)
               => /\ \A b \in move_carets(Buf, up[1], up[2]) :
                        /\ ~b.panicked
                        /\ head_of(b) = offset_of_line(text, L - 1) + line_len(text, L - 1)
                  /\ \A b \in moved_twice(Buf, up) :
                        /\ ~b.panicked
                        /\ head_of(b) = offset_of_line(text, L - 2) + c

\* the motion of the input cannot change the line of the caret of b: Up on
\* line 0, Down on the last line, or a viewport motion to the line of the caret
stays_on_line(b, in) ==
    LET L == line_of_offset(b.text, head_of(b))
        k == in[2].kind
    IN  \/ k = "Up" /\ L = 0
        \/ k = "Down" /\ L = line_of_offset(b.text, Len(b.text))
        \/ k = "TopOfViewport" /\ in[1].first_line = L
        \/ k = "BottomOfViewport" /\ Viewport_last_line(in[1]) = L

\* the column a vertical motion of the caret of b uses
column_used(b) ==
    LET r == b.regions.regions[b.regions.primary_caret_id]
    IN  IF r.preferred_column # None THEN Unwrap(r.preferred_column)
        ELSE r.head - offset_of_line(b.text, line_of_offset(b.text, r.head))

\* C19: in every reachable state a vertical motion that cannot change the line
\* leaves the head of the caret where it is and sets preferred_column to the
\* column used for the move.
C19_NoLineChangeKeepsHead ==
    ~panicked =>
        \A in \in MotionInputs :
            stays_on_line(Buf, in)
            => \A b \in moved_or_selected(Buf, in) :
                  /\ ~b.panicked
                  /\ head_of(b) = head_of(Buf)
                  /\ b.regions.regions[b.regions.primary_caret_id].preferred_column
                        = Some(column_used(Buf))

\* the viewports in, below and beyond every text of the motion specification
AllViewports ==
    { Viewport(f, h) : f \in 0..(MotionMaxLen + 1), h \in 0..(MotionMaxLen + 1) }

\* Up and Down do not read the viewport
VerticalInputs ==
    { <<vp, Motion(k, "Both")>> : vp \in AllViewports, k \in {"TopOfViewport", "BottomOfViewport"} }
    \cup { <<Viewport(0, 0), Motion(k, "Both")>> : k \in {"Up", "Down"} }

line_starts(t) == {0} \cup { k \in 1..Len(t) : t[k] = "\n" }

\* the inputs of StartOfLine and of EndOfLine
LineEndInputs == { in \in MotionInputs : in[2].kind \in {"StartOfLine", "EndOfLine"} }

\* C21: StartOfLine moves the head to the offset of the first character of the
\* line the head is on; EndOfLine moves it to the start of the next line when
\* the head is not on the last line, and to the text length when it is.
C21_LineEnds ==
    ~panicked =>
        LET head == head_of(Buf)
        IN  \A in \in LineEndInputs : \A b \in moved_or_selected(Buf, in) :
               /\ ~b.panicked
               /\ in[2].kind = "StartOfLine"
                    => head_of(b) = largest({ k \in line_starts(text) : k <= head }, 0)
               /\ in[2].kind = "EndOfLine"
                    => head_of(b) = smallest({ k \in line_starts(text) : k > head }, Len(text))

\* the head right behind a line break, with a line break after it
C21_Witness ==
    /\ ~panicked
    /\ LET head == head_of(Buf)
       IN  /\ head > 0
           /\ text[head] = "\n"
           /\ \E k \in (head + 1)..Len(text) : text[k] = "\n"

\* the category of the character that ends at the offset, and of the one that
\* starts there
category_before(t, o) ==
    CharCategory_of_char(t[largest({ j \in boundaries(t) : j < o }, 0) + 1])
category_after(t, o) == CharCategory_of_char(t[o + 1])

\* the table of boundaries between a left and a right category
boundary_between(left, right) ==
    CASE <<left, right>> \in {<<"Word", "Punctuation">>, <<"Punctuation", "Word">>} -> Some("Both")
      [] <<left, right>> \in {<<"Whitespace", "Word">>, <<"Whitespace", "Punctuation">>} -> Some("Start")
      [] <<left, right>> \in {<<"Word", "Whitespace">>, <<"Punctuation", "Whitespace">>} -> Some("End")
      [] OTHER -> None

\* the boundaries of the text at the offsets from..to, each with its type
boundaries_within(t, from, to) ==
    { <<o, Unwrap(boundary_between(category_before(t, o), category_after(t, o)))>> :
        o \in { o \in boundaries(t) :
                  /\ from <= o /\ o <= to /\ 0 < o /\ o < Len(t)
                  /\ boundary_between(category_before(t, o), category_after(t, o)) # None } }

\* the elements of a sequence
elements(seq) == { seq[i] : i \in 1..Len(seq) }

\* C22: the scan reports a boundary at an offset exactly when the categories of
\* the characters left and right of it are Word/Punctuation or
\* Punctuation/Word (Both), Whitespace/Word or Whitespace/Punctuation (Start),
\* Word/Whitespace or Punctuation/Whitespace (End); equal categories and pairs
\* with Other give none; and an offset has the same type in the forward and in
\* the backward scan.
C22_BoundaryTable ==
    \A k \in boundaries(text) :
        /\ elements(find_word_boundaries(text, k)) \ {<<Len(text), "Both">>}
             = boundaries_within(text, k + 1, Len(text))
        /\ elements(find_word_boundaries_backwards(text, k)) \ {<<0, "Both">>}
             = boundaries_within(text, 0, k - 1)

\* the forward scan from k yields ascending offsets behind k and ends with the
\* end of the text; the backward scan yields descending offsets in front of k
\* and ends with offset 0
scans_end_at_text_ends(t, k) ==
    LET fwd == find_word_boundaries(t, k)
        bwd == find_word_boundaries_backwards(t, k)
    IN  /\ ~scan_panics(t, k)
        /\ Len(fwd) >= 1
        /\ fwd[Len(fwd)] = <<Len(t), "Both">>
        /\ \A i \in 1..(Len(fwd) - 1) : fwd[i][1] < fwd[i + 1][1]
        /\ k < Len(t) => \A i \in 1..Len(fwd) : fwd[i][1] > k
        /\ Len(bwd) >= 1
        /\ bwd[Len(bwd)] = <<0, "Both">>
        /\ \A i \in 1..(Len(bwd) - 1) : bwd[i][1] > bwd[i + 1][1]
        /\ k > 0 => \A i \in 1..Len(bwd) : bwd[i][1] < k

lands_back(t, k) ==
    LET b == find_word_boundaries(t, k)[1][1]
    IN  /\ ~scan_panics(t, k)
        /\ ~scan_panics(t, b)
        /\ find_word_boundaries_backwards(t, b)[1][1] <= k

\* what the forward scan from k reports between two of its offsets, the
\* backward scan from the larger one reports with the same type
reported_backwards(t, k) ==
    LET fwd == find_word_boundaries(t, k)
    IN  \A i, j \in 1..Len(fwd) : \A m \in 1..Len(fwd) :
            fwd[i][1] < fwd[m][1] /\ fwd[m][1] < fwd[j][1] =>
                /\ ~scan_panics(t, fwd[j][1])
                /\ fwd[m] \in elements(find_word_boundaries_backwards(t, fwd[j][1]))

\* C24: word boundary symmetry: for every offset k < len the first boundary
\* of the backward scan from the first boundary b of the forward scan from k
\* is at an offset <= k, and every boundary strictly between two offsets the
\* forward scan reports is reported with the same type by the backward scan
\* started at the larger offset.
C24_WordBoundarySymmetry ==
    \A k \in 0..(Len(text) - 1) :
        /\ lands_back(text, k)
        /\ reported_backwards(text, k)

\* the inputs of NextWordBoundary and of PrevWordBoundary
WordBoundaryInputs ==
    { in \in MotionInputs : in[2].kind \in {"NextWordBoundary", "PrevWordBoundary"} }

\* the offsets among from..to of the boundaries whose type matches the kind: a
\* Both boundary matches Start and End, the kind Both matches every boundary
matching_offsets(t, from, to, kind) ==
    { bd[1] : bd \in { bd \in boundaries_within(t, from, to) :
                          bd[2] = kind \/ bd[2] = "Both" \/ kind = "Both" } }

\* C25: NextWordBoundary(kind) sets the head to the smallest boundary offset
\* greater than the head whose type matches the kind, or to the text length;
\* PrevWordBoundary(kind) sets it to the largest matching boundary offset
\* smaller than the head, or to 0; so the first moves the head forward when
\* head < len and the second moves it backward when head > 0.
C25_WordBoundaryMotions ==
    ~panicked =>
        LET head == head_of(Buf)
        IN  \A in \in WordBoundaryInputs : \A b \in moved_or_selected(Buf, in) :
               /\ ~b.panicked
               /\ in[2].kind = "NextWordBoundary" =>
                     /\ head_of(b) = smallest(matching_offsets(text, head + 1, Len(text),
                                                               in[2].boundary_type), Len(text))
                     /\ head < Len(text) => head_of(b) > head
               /\ in[2].kind = "PrevWordBoundary" =>
                     /\ head_of(b) = largest(matching_offsets(text, 0, head - 1,
                                                              in[2].boundary_type), 0)
                     /\ head > 0 => head_of(b) < head

\* from_offset is None exactly beyond the text, and to_offset and
\* to_offset_snapping bring the position of the offset back to the offset
round_trip(t, o) ==
    /\ from_offset(t, o) = None <=> o > Len(t)
    /\ o <= Len(t) =>
          LET p == Unwrap(from_offset(t, o))
          IN  /\ to_offset(p, t) = Some(o)
              /\ to_offset_snapping(p, t) = o

\* to_offset is None exactly for the positions beyond the last line or beyond
\* the length of their line, which are the positions of no offset of the text
strict_conversion(t) ==
    \A pos \in AllPositions :
        /\ to_offset(pos, t) = None <=> ~addresses(pos, t)
        /\ addresses(pos, t) <=> \E o \in 0..Len(t) : from_offset(t, o) = Some(pos)

undone_or_redone(b, dbg) ==
    { b2 \in (IF can_undo(b.undo_history) THEN Buffer_undo(b, dbg) ELSE {})
               \cup (IF can_redo(b.undo_history) THEN Buffer_redo(b, dbg) ELSE {}) :
        ~b2.panicked }

\* the characters of the engine's union string that an Undo or a Redo takes out
\* of the head text, and those it puts into it
taken_out(b, b2) ==
    { i \in 1..Len(b.engine.union) :
        /\ visible(b.engine.union[i], b.engine.undone_groups)
        /\ ~visible(b.engine.union[i], b2.engine.undone_groups) }
put_in(b, b2) ==
    { i \in 1..Len(b.engine.union) :
        /\ ~visible(b.engine.union[i], b.engine.undone_groups)
        /\ visible(b.engine.union[i], b2.engine.undone_groups) }

\* the offset in the head text of buffer b of the i-th character of the union
offset_in(b, i) ==
    Cardinality({ j \in 1..(i - 1) : visible(b.engine.union[j], b.engine.undone_groups) })

\* the offsets of the old head text at which the affected text starts and ends
affected_from(b, b2) ==
    smallest({ offset_in(b, i) : i \in taken_out(b, b2) \cup put_in(b, b2) }, Len(b.text) + 1)
affected_to(b, b2) ==
    largest({ offset_in(b, i) + 1 : i \in taken_out(b, b2) }
              \cup { offset_in(b, i) : i \in put_in(b, b2) }, 0)

\* an offset before the affected text stays, one behind it is shifted by the
\* change in length, one inside removed text moves to where that text was
\* (when no text is put in at that very point)
moved_with_text(b, b2, o, o2) ==
    /\ o < affected_from(b, b2) => o2 = o
    /\ o > affected_to(b, b2) => o2 = o + Len(b2.text) - Len(b.text)
    /\ \A i, j \in taken_out(b, b2) :
          /\ offset_in(b, i) = o - 1 /\ offset_in(b, j) = o
          /\ \A m \in put_in(b, b2) : offset_in(b2, m) # offset_in(b2, j)
          => o2 = offset_in(b2, j)

\* C27: after a successful Undo or Redo every region's head and tail are the
\* previous offsets transformed through the delta from the old head text to the
\* new one: an offset before the affected text stays, one behind it is shifted
\* by the change in length, one inside removed text moves to where it was.
C27_UndoTransformsRegions ==
    ~panicked =>
        \A b2 \in undone_or_redone(Buf, debug_assertions) :
            LET delta == try_delta_rev_head(b2.engine, Buf.engine.undone_groups)
            IN  \A id \in DOMAIN Buf.regions.regions :
                  LET r == Buf.regions.regions[id]
                      r2 == b2.regions.regions[id]
                  IN  /\ r2 = Region_apply_transformer(r, delta)
                      /\ moved_with_text(Buf, b2, r.head, r2.head)
                      /\ moved_with_text(Buf, b2, r.tail, r2.tail)

\* the carets of buffer b that are no longer carets in buffer b2
merged_away(b, b2) == elements(b.regions.carets) \ elements(b2.regions.carets)

\* C27, amended: after a successful Undo or Redo every region's head and tail
\* are the previous offsets transformed through the delta from the old head
\* text to the new one (an offset before the affected text stays, one behind it
\* is shifted by the change in length, one inside removed text moves to where
\* it was), except for a caret that the consistency pass then merged with
\* carets it touches: its range is made to end where a merged caret ends.
C27_UndoTransformsThenMerges ==
    ~panicked =>
        \A b2 \in undone_or_redone(Buf, debug_assertions) :
            LET delta == try_delta_rev_head(b2.engine, Buf.engine.undone_groups)
                transformed == [id \in DOMAIN Buf.regions.regions |->
                                  Region_apply_transformer(Buf.regions.regions[id], delta)]
            IN  \A id \in DOMAIN Buf.regions.regions :
                  LET r == Buf.regions.regions[id]
                      r2 == b2.regions.regions[id]
                  IN  /\ moved_with_text(Buf, b2, r.head, transformed[id].head)
                      /\ moved_with_text(Buf, b2, r.tail, transformed[id].tail)
                      /\ \/ r2 = transformed[id]
                         \/ /\ id \in elements(b2.regions.carets)
                            /\ \E other \in merged_away(Buf, b2) :
                                  r2 = with_end_at(transformed[id],
                                                   range_end(transformed[other]))

\* an Undo or a Redo that changes the text and after which two carets are one
C27_Witness ==
    /\ ~panicked
    /\ \E b2 \in undone_or_redone(Buf, debug_assertions) :
          /\ b2.text # text
          /\ merged_away(Buf, b2) # {}

\* ------------------------------------------------------------------ undo without a delta
\* Region with head and tail at most len
snapped(r, len) == [r EXCEPT !.head = Min(r.head, len), !.tail = Min(r.tail, len)]

\* snap_regions_to_valid_position that snaps the heads only
snap_heads_to_valid_position(b) ==
    { [b EXCEPT !.regions = r] :
        r \in update_regions(b.regions,
                 [id \in DOMAIN b.regions.regions |->
                    [b.regions.regions[id] EXCEPT !.head = Min(@, Len(b.text))]]) }

\* Buffer::snap_regions_to_valid_position
snap_regions_to_valid_position(b) ==
    { [b EXCEPT !.regions = r] :
        r \in update_regions(b.regions,
                 [id \in DOMAIN b.regions.regions |->
                    snapped(b.regions.regions[id], Len(b.text))]) }

\* the part Buffer::undo and Buffer::redo share once the history has moved,
\* when try_delta_rev_head returns Err
after_history_move_without_delta(b, u) ==
    LET e == Engine_undo(b.engine, u.currently_undone)
    IN  snap_regions_to_valid_position(
            [ text |-> get_head(e),
              engine |-> e,
              regions |-> b.regions,
              undo_history |-> u,
              last_edit_type |-> "Other",
              panicked |-> FALSE ])

\* Buffer::undo and Buffer::redo with the Err branch taken
Buffer_undo_without_delta(b, dbg) ==
    IF ~can_undo(b.undo_history) THEN {b}
    ELSE IF undo_assert_fails(b.undo_history, dbg) THEN panic(b)
    ELSE after_history_move_without_delta(b, UndoHistory_undo(b.undo_history, dbg))

Buffer_redo_without_delta(b, dbg) ==
    IF ~can_redo(b.undo_history) THEN {b}
    ELSE IF redo_assert_fails(b.undo_history, dbg) THEN panic(b)
    ELSE after_history_move_without_delta(b, UndoHistory_redo(b.undo_history, dbg))

\* BufferOp::Undo and BufferOp::Redo when the delta cannot be computed
DoUndoWithoutDelta ==
    /\ ~panicked
    /\ \E b \in Buffer_undo_without_delta(Buf, debug_assertions) : SetBuf(b)
    /\ UNCHANGED << debug_assertions, recorded >>

DoRedoWithoutDelta ==
    /\ ~panicked
    /\ \E b \in Buffer_redo_without_delta(Buf, debug_assertions) : SetBuf(b)
    /\ UNCHANGED << debug_assertions, recorded >>

NextFallback ==
    \/ DoInsert(EditTexts, MaxLen, MaxRevs)
    \/ DoDelete(MaxLen, MaxRevs)
    \/ DoUndoWithoutDelta
    \/ DoRedoWithoutDelta
    \/ DoMove(HorizontalInputs)
    \/ DoSelection(HorizontalInputs)
    \/ DoNewCaret(HorizontalInputs, MaxRegions)

SpecFallback == Init /\ [][NextFallback]_vars

\* the buffers an Undo or a Redo without a delta ends in, once the history moved
undone_without_delta(b, dbg) ==
    (IF can_undo(b.undo_history) /\ ~undo_assert_fails(b.undo_history, dbg)
     THEN Buffer_undo_without_delta(b, dbg) ELSE {})
    \cup (IF can_redo(b.undo_history) /\ ~redo_assert_fails(b.undo_history, dbg)
          THEN Buffer_redo_without_delta(b, dbg) ELSE {})

\* the texts Undo and Redo end in when the delta can be computed
undone_texts(b, dbg) == { b2.text : b2 \in undone_or_redone(b, dbg) }

\* C28: when the delta from the old head revision to the new head cannot be
\* computed after an Undo or a Redo, the operation completes without a panic:
\* the text is the undone or redone text, every region's head and tail is
\* min(offset, len of the text), and the carets are non-empty, ordered and
\* do not overlap.
C28_FallbackSnapsRegions ==
    ~panicked =>
        \A b2 \in undone_without_delta(Buf, debug_assertions) :
            /\ ~b2.panicked
            /\ b2.text \in undone_texts(Buf, debug_assertions)
            /\ DOMAIN b2.regions.regions = DOMAIN Buf.regions.regions
            /\ \A id \in DOMAIN Buf.regions.regions :
                  /\ b2.regions.regions[id].head = Min(Buf.regions.regions[id].head, Len(b2.text))
                  /\ b2.regions.regions[id].tail = Min(Buf.regions.regions[id].tail, Len(b2.text))
            /\ Len(b2.regions.carets) >= 1
            /\ carets_strictly_ordered(b2.regions)

\* an Undo or a Redo without a delta that draws a region back into the text
\* and leaves fewer carets
C28_Witness ==
    /\ ~panicked
    /\ \E b2 \in undone_without_delta(Buf, debug_assertions) :
          /\ \E id \in DOMAIN Buf.regions.regions : Buf.regions.regions[id].head > Len(b2.text)
          /\ Len(b2.regions.carets) < Len(Buf.regions.carets)

\* the regions a Selection leaves in front of the consistency pass
regions_selected(b, in) ==
    [id \in DOMAIN b.regions.regions |->
        IF id \in elements(b.regions.carets)
        THEN apply_motion_to_region(b.text, in[1], b.regions.regions[id], TRUE, in[2])
        ELSE b.regions.regions[id]]

\* the regions a NewCaret leaves in front of the consistency pass
regions_with_new_caret(b, in) ==
    [id \in DOMAIN b.regions.regions \cup {RegionId_gen(b.regions)} |->
        IF id \in DOMAIN b.regions.regions THEN b.regions.regions[id]
        ELSE new_caret_target(b, in[1], in[2])]

\* two carets went into the consistency pass and one came out: it is the one
\* with the smaller head, with its stickyness and preferred column, and its
\* range is the union of the two ranges
merged_into_union(before, carets, after) ==
    Cardinality(carets) = 2 /\ Len(after.carets) = 1 =>
        LET a == after.carets[1]
            b == CHOOSE id \in carets : id # a
        IN  /\ a \in carets
            /\ before[a].head <= before[b].head
            /\ after.regions[a].stickyness = before[a].stickyness
            /\ after.regions[a].preferred_column = before[a].preferred_column
            /\ range_start(after.regions[a]) = Min(range_start(before[a]), range_start(before[b]))
            /\ range_end(after.regions[a]) = Max(range_end(before[a]), range_end(before[b]))

\* C29: when the consistency pass merges two carets a and b, a before b in head
\* order, the surviving caret keeps a's id, stickyness and preferred column, b
\* is no longer a caret, and the survivor's range is the union of the two
\* ranges, from the smaller start to the larger end; so two selections that a
\* Selection motion makes overlap become one caret that covers both.
C29_MergeCoversBoth ==
    ~panicked =>
        \A in \in LineMotionInputs :
            /\ \A b \in Buffer_selection(Buf, in[1], in[2]) :
                  ~b.panicked =>
                      merged_into_union(regions_selected(Buf, in),
                                        elements(regions.carets), b.regions)
            /\ \A b \in Buffer_new_caret(Buf, in[1], in[2], debug_assertions) :
                  ~b.panicked /\ b # Buf =>
                      merged_into_union(regions_with_new_caret(Buf, in),
                                        elements(regions.carets) \cup {RegionId_gen(regions)},
                                        b.regions)

\* the region of the primary caret
primary_region(b) == b.regions.regions[b.regions.primary_caret_id]

\* the motion applied to the primary caret, with the tail collapsed to the head
primary_target(b, in) == apply_motion_to_region(b.text, in[1], primary_region(b), FALSE, in[2])

\* the region touches the region of a caret of the buffer
touches_caret(b, region) ==
    \E i \in 1..Len(b.regions.carets) : overlaps(region, carets_of(b.regions)[i])

\* C30: NewCaret(motion) applies the motion, with the tail collapsed to the
\* head, to the region of the primary caret.  When the target is that region
\* nothing changes; otherwise one caret with the target region is added and
\* becomes the primary caret, the carets there were keep their regions and
\* there is one caret more, unless the new caret touches a caret there was and
\* the two are merged.
C30_NewCaretFromPrimary ==
    ~panicked =>
        \A in \in LineMotionInputs :
        \A b \in Buffer_new_caret(Buf, in[1], in[2], debug_assertions) :
            ~b.panicked =>
                LET target == primary_target(Buf, in)
                    id == RegionId_gen(regions)
                IN  /\ target = primary_region(Buf) => b = Buf
                    /\ target # primary_region(Buf) =>
                          IF touches_caret(Buf, target)
                          THEN Len(b.regions.carets) <= Len(regions.carets)
                          ELSE /\ Len(b.regions.carets) = Len(regions.carets) + 1
                               /\ b.regions.primary_caret_id = id
                               /\ b.regions.regions[id] = target
                               /\ \A x \in DOMAIN regions.regions :
                                     b.regions.regions[x] = regions.regions[x]

\* C31: collapse_selections sets tail = head for every caret and changes
\* nothing else: head, stickyness and id of every caret, the number of carets
\* and the primary caret id stay as they are, and no carets are merged.
C31_CollapseSelectionsFrame ==
    \A after \in collapse_selections(regions) :
        /\ after.carets = regions.carets
        /\ after.primary_caret_id = regions.primary_caret_id
        /\ DOMAIN after.regions = DOMAIN regions.regions
        /\ \A id \in DOMAIN regions.regions :
              after.regions[id] =
                  IF is_caret(regions, id)
                  THEN [regions.regions[id] EXCEPT !.tail = regions.regions[id].head]
                  ELSE regions.regions[id]

\* two carets, one of them a selection
C31_Witness ==
    /\ Len(regions.carets) >= 2
    /\ \E i \in 1..Len(regions.carets) : ~is_cursor(carets_of(regions)[i])

\* ------------------------------------------------------------------ saving a document
\* the length in bytes of a leaf of the rope
LeafLen == 1

\* Rope::iter_chunks(..rope.len()) that leaves out the last leaf
iter_chunks_short(r) ==
    [i \in 1..((Len(r) + LeafLen - 1) \div LeafLen - 1) |->
        SubSeq(r, (i - 1) * LeafLen + 1, Min(i * LeafLen, Len(r)))]

\* Rope::iter_chunks(..rope.len()): the leaves of the rope, in order
iter_chunks(r) ==
    [i \in 1..((Len(r) + LeafLen - 1) \div LeafLen) |->
        SubSeq(r, (i - 1) * LeafLen + 1, Min(i * LeafLen, Len(r)))]

\* the bytes of the chunks written to a file
RECURSIVE written(_)
written(chunks) == IF chunks = <<>> THEN <<>> ELSE Head(chunks) \o written(Tail(chunks))

buffer_vars == << debug_assertions, text, engine, regions, undo_history, last_edit_type,
                 panicked, recorded >>

\* Document::write_to_file: clone the head rope and spawn the blocking task
DoWriteToFile ==
    /\ ~panicked
    /\ rope = None
    /\ rope' = Some(get_head(engine))
    /\ snapshot' = Some(get_head(engine))
    /\ UNCHANGED << buffer_vars, tmp_file, file, view, mapper_vars, session_vars >>

\* write_rope_to_file: File::create(tmp_path)
DoCreateTmpFile ==
    /\ rope # None
    /\ tmp_file = None
    /\ tmp_file' = Some(<<>>)
    /\ UNCHANGED << buffer_vars, rope, snapshot, file, view, mapper_vars, session_vars >>

\* write_rope_to_file: file.write_all(chunk.as_bytes()) for the next chunk
DoWriteChunk ==
    /\ rope # None
    /\ tmp_file # None
    /\ Len(Unwrap(tmp_file)) < Len(iter_chunks(Unwrap(rope)))
    /\ tmp_file' = Some(Append(Unwrap(tmp_file),
                               iter_chunks(Unwrap(rope))[Len(Unwrap(tmp_file)) + 1]))
    /\ UNCHANGED << buffer_vars, rope, snapshot, file, view, mapper_vars, session_vars >>

\* write_rope_to_file: std::fs::rename(tmp_path, path), and the task ends
DoRename ==
    /\ rope # None
    /\ tmp_file # None
    /\ Len(Unwrap(tmp_file)) >= Len(iter_chunks(Unwrap(rope)))
    /\ file' = Some(written(Unwrap(tmp_file)))
    /\ rope' = None
    /\ tmp_file' = None
    /\ UNCHANGED << buffer_vars, snapshot, view, mapper_vars, session_vars >>

\* Edits of the buffer while a document is being saved.
NextSave ==
    \/ DoInsert(EditTexts, MaxLen, MaxRevs)
    \/ DoDelete(MaxLen, MaxRevs)
    \/ DoUndo
    \/ DoRedo
    \/ DoWriteToFile
    \/ DoCreateTmpFile
    \/ DoWriteChunk
    \/ DoRename

SpecSave == Init /\ [][NextSave]_vars

NonVerticalInputs ==
    { in \in MotionInputs :
        in[2].kind \in {"Left", "Right", "StartOfLine", "EndOfLine",
                        "NextWordBoundary", "PrevWordBoundary"} }

\* the inputs of Up and of Down
UpDownInputs == { in \in MotionInputs : in[2].kind \in {"Up", "Down"} }

\* C33: a motion that is not vertical (Left, Right, StartOfLine, EndOfLine,
\* NextWordBoundary, PrevWordBoundary) clears the caret's preferred column, so
\* a vertical move after it goes by the column the caret is in, not by a
\* column remembered from an earlier vertical move.
C33_HorizontalMotionForgetsColumn ==
    ~panicked =>
        \A in \in NonVerticalInputs : \A b \in moved_or_selected(Buf, in) :
            ~b.panicked =>
                /\ \A i \in 1..Len(b.regions.carets) :
                      carets_of(b.regions)[i].preferred_column = None
                /\ \A v \in UpDownInputs : \A b2 \in move_carets(b, v[1], v[2]) :
                      ~b2.panicked =>
                          LET pos == Unwrap(from_offset(b.text, head_of(b)))
                              line == line_of_offset(b.text, head_of(b2))
                          IN  \/ head_of(b2) =
                                     to_offset_snapping(Position(line, pos.col), b.text)
                              \/ line = pos.line /\ head_of(b2) = head_of(b)

\* a caret that remembers a column other than the one it is in
C33_Witness ==
    /\ ~panicked
    /\ primary_region(Buf).preferred_column # None
    /\ Unwrap(primary_region(Buf).preferred_column)
          # Unwrap(from_offset(text, head_of(Buf))).col

\* ------------------------------------------------------------------ the view
SCROLL_OFF == 3
ViewMaxLines == 5
ViewMaxHeight == 5

\* texts of up to ViewMaxLines line breaks
ViewTexts == { [i \in 1..k |-> "\n"] : k \in 0..ViewMaxLines }

\* the motions a key moves the carets by
KeyMotions == { Motion(k, "Both") : k \in {"Up", "Down", "TopOfViewport", "BottomOfViewport"} }

\* Buffer::primary_caret_position
primary_caret_position(b) == Unwrap(from_offset(b.text, head_of(b)))

\* App::handle_key_pressed for a key that moves the carets: the buffers and
\* viewports it ends in
handle_key_pressed(b, v, motion) ==
    { <<b2, IF b2.panicked THEN v
            ELSE [v EXCEPT !.vp = with_line_in_view(v.vp, primary_caret_position(b2).line,
                                                    SCROLL_OFF)]>>
        : b2 \in move_carets(b, v.vp, motion) }

\* App::open_view on a document opened from a file
InitView ==
    /\ debug_assertions \in BOOLEAN
    /\ \E str \in ViewTexts :
          /\ text = str
          /\ engine = Engine_new(str)
          /\ recorded = <<str>>
    /\ regions = BufferRegions_default
    /\ undo_history = UndoHistory_default
    /\ last_edit_type = "Other"
    /\ panicked = FALSE
    /\ document_unused
    /\ mapper_unused
    /\ session_unused
    /\ \E height \in 1..ViewMaxHeight : view = [vp |-> Viewport(0, height)]

\* App::handle_viewport_changed
DoViewportChanged ==
    /\ \E height \in 1..ViewMaxHeight : view' = [view EXCEPT !.vp.height = height]
    /\ UNCHANGED << buffer_vars, document_vars, mapper_vars, session_vars >>

\* App::handle_key_pressed
DoKeyPressed ==
    /\ ~panicked
    /\ \E motion \in KeyMotions : \E r \in handle_key_pressed(Buf, view, motion) :
          /\ text' = r[1].text
          /\ engine' = r[1].engine
          /\ regions' = r[1].regions
          /\ undo_history' = r[1].undo_history
          /\ last_edit_type' = r[1].last_edit_type
          /\ panicked' = r[1].panicked
          /\ view' = r[2]
    /\ UNCHANGED << debug_assertions, recorded, document_vars, mapper_vars, session_vars >>

NextView == DoViewportChanged \/ DoKeyPressed

SpecView == InitView /\ [][NextView]_vars

\* the viewport shows the line
in_view(vp, line_nr) == vp.first_line <= line_nr /\ line_nr <= Viewport_last_line(vp)

\* C34: for a viewport of height >= 1 and every line_nr and scroll_off,
\* with_line_in_view(line_nr, scroll_off) returns a viewport of the same
\* height that contains line_nr; so after each key press the line of the
\* primary caret is inside the viewport of the view.
C34_LineInView ==
    /\ \A line_nr \in 0..ViewMaxLines, scroll_off \in 0..ViewMaxHeight :
          LET vp2 == with_line_in_view(view.vp, line_nr, scroll_off)
          IN  vp2.height = view.vp.height /\ in_view(vp2, line_nr)
    /\ ~panicked =>
          \A motion \in KeyMotions : \A r \in handle_key_pressed(Buf, view, motion) :
              ~r[1].panicked => in_view(r[2].vp, primary_caret_position(r[1]).line)

\* ---------------------------------------------------------------------
\* bazed-input-mapper: InputMapper and Keymap

\* the ids of the keymaps (vim_interface.rs registers one keymap per mode)
BaseKeymapId == "vim-mode/empty"
KeymapIds == { BaseKeymapId, "vim-mode/normal", "vim-mode/insert" }

\* the key inputs, without modifiers; input_is_printable holds for the letters
Keys == { "Escape", "d", "w" }
input_is_printable(input) == input \in { "d", "w" }

\* the stack never grows beyond MaxStack active keymaps
MaxStack == 3

KeymapNode_Leaf(v) == [kind |-> "Leaf", value |-> v]
KeymapNode_Submap(keymap) == [kind |-> "Submap", submap |-> keymap]

Keymap_new(map, on_any_printable) ==
    [map |-> map, on_any_printable |-> on_any_printable]

Keymap_new_from_map(map) == Keymap_new(map, None)

\* a keymap with one leaf, one with a chain of two keys, one with a
\* fallback for printable characters
Keymaps ==
    { Keymap_new_from_map("Escape" :> KeymapNode_Leaf("Normal mode")),
      Keymap_new_from_map(
          "d" :> KeymapNode_Submap(Keymap_new_from_map("w" :> KeymapNode_Leaf("dw")))),
      Keymap_new("Escape" :> KeymapNode_Leaf("Normal mode"),
                 Some(KeymapNode_Leaf("insert"))) }

\* Keymap::node_at_input, for an input without modifiers
node_at_input(keymap, input) ==
    IF input \in DOMAIN keymap.map
    THEN Some(keymap.map[input])
    ELSE IF input_is_printable(input) THEN keymap.on_any_printable ELSE None

\* Keymap::node_at_path
RECURSIVE node_at_path(_, _)
node_at_path(keymap, inputs) ==
    IF inputs = << >>
    THEN None
    ELSE LET next == node_at_input(keymap, Head(inputs))
         IN  IF next = None
             THEN None
             ELSE LET node == Unwrap(next)
                  IN  IF node.kind = "Submap" /\ Len(inputs) = 1
                      THEN Some(node)
                      ELSE IF node.kind = "Submap"
                           THEN node_at_path(node.submap, Tail(inputs))
                           ELSE Some(node)

\* what a call returned
Returns(call, arg, value) == [call |-> call, arg |-> arg, value |-> value]
Ok == [kind |-> "Ok"]
Err(error) == [kind |-> "Err", error |-> error]
KeymapNotRegistered(keymap_id) == [name |-> "KeymapNotRegistered", id |-> keymap_id]
KeymapAlreadyAtTop == [name |-> "KeymapAlreadyAtTop"]
Panic == [kind |-> "Panic"]
Found(node) == [kind |-> "Found", node |-> node]

\* InputMapper::from_base_keymap
from_base_keymap(keymap_id, keymap) ==
    [ keymaps |-> (keymap_id :> keymap),
      stack |-> << keymap_id >>,
      buffered_inputs |-> << >> ]

\* InputMapper::register_keymap: HashMap::insert replaces an entry
register_keymap(m, keymap_id, keymap) ==
    [m EXCEPT !.keymaps = (keymap_id :> keymap) @@ m.keymaps]

\* InputMapper::push_keymap: the mapper after the call, and the result
push_keymap(m, keymap_id) ==
    IF keymap_id \notin DOMAIN m.keymaps
    THEN [mapper |-> m, value |-> Err(KeymapNotRegistered(keymap_id))]
    ELSE IF m.stack[Len(m.stack)] = keymap_id
         THEN [mapper |-> m, value |-> Err(KeymapAlreadyAtTop)]
         ELSE [mapper |-> [m EXCEPT !.stack = Append(@, keymap_id)], value |-> Ok]

\* a deactivate_keymap that searches the whole stack, the base map included
deactivate_keymap_in_stack(m, keymap_id) ==
    LET found == { i \in 1..Len(m.stack) : m.stack[i] = keymap_id }
    IN  IF found = {}
        THEN m
        ELSE [m EXCEPT !.stack = remove_at(@, CHOOSE i \in found : \A j \in found : j <= i)]

\* InputMapper::deactivate_keymap: the search is in stack.tail, the
\* entries above the base map
deactivate_keymap(m, keymap_id) ==
    LET tail == Tail(m.stack)
        found == { i \in 1..Len(tail) : tail[i] = keymap_id }
    IN  IF found = {}
        THEN m
        ELSE [m EXCEPT !.stack =
                 << Head(@) >> \o remove_at(tail, CHOOSE i \in found : \A j \in found : j <= i)]

\* InputMapper::on_input: the mapper after the call, and the node found;
\* the unwrap panics when the top of the stack is not a registered keymap
on_input(m, input) ==
    LET inputs == Append(m.buffered_inputs, input)
        top == m.stack[Len(m.stack)]
    IN  IF top \notin DOMAIN m.keymaps
        THEN [mapper |-> [m EXCEPT !.buffered_inputs = inputs], value |-> Panic]
        ELSE LET node == node_at_path(m.keymaps[top], inputs)
             IN  IF node # None /\ Unwrap(node).kind = "Submap"
                 THEN [mapper |-> [m EXCEPT !.buffered_inputs = inputs], value |-> Found(node)]
                 ELSE [mapper |-> [m EXCEPT !.buffered_inputs = << >>], value |-> Found(node)]

\* a Buffer nothing is done with
buffer_unused ==
    /\ debug_assertions \in BOOLEAN
    /\ text = << >>
    /\ engine = Engine_new(<< >>)
    /\ recorded = << << >> >>
    /\ regions = BufferRegions_default
    /\ undo_history = UndoHistory_default
    /\ last_edit_type = "Other"
    /\ panicked = FALSE

\* VimInterface::new: the base keymap under the id vim-mode/empty
InitMapper ==
    /\ buffer_unused
    /\ document_unused
    /\ view = [vp |-> Viewport(0, 1)]
    /\ session_unused
    /\ \E keymap \in Keymaps : input_mapper = from_base_keymap(BaseKeymapId, keymap)
    /\ returned = Returns("from_base_keymap", BaseKeymapId, Ok)

DoRegisterKeymap ==
    /\ \E keymap_id \in KeymapIds, keymap \in Keymaps :
          /\ input_mapper' = register_keymap(input_mapper, keymap_id, keymap)
          /\ returned' = Returns("register_keymap", keymap_id, Ok)
    /\ UNCHANGED << buffer_vars, document_vars, view, session_vars >>

DoPushKeymap ==
    /\ Len(input_mapper.stack) < MaxStack
    /\ \E keymap_id \in KeymapIds :
          LET r == push_keymap(input_mapper, keymap_id)
          IN  /\ input_mapper' = r.mapper
              /\ returned' = Returns("push_keymap", keymap_id, r.value)
    /\ UNCHANGED << buffer_vars, document_vars, view, session_vars >>

DoDeactivateKeymap ==
    /\ \E keymap_id \in KeymapIds :
          /\ input_mapper' = deactivate_keymap(input_mapper, keymap_id)
          /\ returned' = Returns("deactivate_keymap", keymap_id, Ok)
    /\ UNCHANGED << buffer_vars, document_vars, view, session_vars >>

DoOnInput ==
    /\ returned.value # Panic
    /\ \E input \in Keys :
          LET r == on_input(input_mapper, input)
          IN  /\ input_mapper' = r.mapper
              /\ returned' = Returns("on_input", input, r.value)
    /\ UNCHANGED << buffer_vars, document_vars, view, session_vars >>

NextMapper == DoRegisterKeymap \/ DoPushKeymap \/ DoDeactivateKeymap \/ DoOnInput

SpecMapper == InitMapper /\ [][NextMapper]_vars

\* C35: the stack of active keymaps is never empty and has the base keymap
\* at its bottom, which no deactivate_keymap removes; every id on the stack
\* is registered in keymaps, so that no on_input panics; a push_keymap of an
\* id that is not registered returns KeymapNotRegistered and leaves the
\* mapper as it was.
C35_ActiveStackRegistered ==
    LET m == input_mapper
    IN  /\ Len(m.stack) >= 1
        /\ m.stack[1] = BaseKeymapId
        /\ \A i \in 1..Len(m.stack) : m.stack[i] \in DOMAIN m.keymaps
        /\ \A input \in Keys : on_input(m, input).value # Panic
        /\ \A keymap_id \in KeymapIds :
              /\ Len(deactivate_keymap(m, keymap_id).stack) >= 1
              /\ deactivate_keymap(m, keymap_id).stack[1] = BaseKeymapId
              /\ keymap_id \notin DOMAIN m.keymaps =>
                    push_keymap(m, keymap_id) =
                        [mapper |-> m, value |-> Err(KeymapNotRegistered(keymap_id))]

\* the base keymap was deactivated with other keymaps active above it, one
\* keymap is not registered and inputs are buffered
C35_Witness ==
    /\ returned.call = "deactivate_keymap"
    /\ returned.arg = BaseKeymapId
    /\ Len(input_mapper.stack) >= 2
    /\ input_mapper.buffered_inputs # << >>
    /\ DOMAIN input_mapper.keymaps # KeymapIds

\* ---------------------------------------------------------------------
\* the offsets of the regions

\* Buffer::all_caret_positions: panics when the head of a caret is not an
\* offset into the text
all_caret_positions_panics(b) ==
    \E i \in 1..Len(b.regions.carets) :
        from_offset(b.text, carets_of(b.regions)[i].head) = None

\* C36: the head and the tail of every region are offsets within
\* 0..=text.len() of the head text, so that all_caret_positions does not
\* panic and no vertical motion unwraps the position None.
C36_OffsetsWithinText ==
    /\ text = get_head(engine)
    /\ \A id \in DOMAIN regions.regions :
          /\ regions.regions[id].head <= Len(text)
          /\ regions.regions[id].tail <= Len(text)
    /\ ~all_caret_positions_panics(Buf)

\* a Delete has shortened a text with two carets, and a region ends at the
\* end of the text that is left
C36_Witness ==
    /\ ~panicked
    /\ last_edit_type = "Delete"
    /\ Len(regions.carets) >= 2
    /\ text # << >>
    /\ \E id \in DOMAIN regions.regions : regions.regions[id].head = Len(text)

\* ---------------------------------------------------------------------
\* the region map

\* C37: the ids of the region map are the ids of the caret list; the
\* region of a caret that the consistency pass merges away is removed from
\* the map, as collapse_carets_into_primary removes the regions of the
\* carets it discards.
C37_NoOrphanedRegions ==
    DOMAIN regions.regions = { regions.carets[i] : i \in 1..Len(regions.carets) }

\* the ids of the caret list are ids of the region map
carets_are_regions ==
    { regions.carets[i] : i \in 1..Len(regions.carets) } \subseteq DOMAIN regions.regions

\* ---------------------------------------------------------------------
\* bazed-stew-interface: the invocations of a StewSessionBase
\*
\* The handles of one session (StewSessionBase is Clone) share the map
\* invocations with the receive task that StewSessionBase::start spawns.
\* A caller is a task that owns a handle; its calls are load_plugin, get_fn
\* and call_fn_and_await_response.  Each await of the caller and each
\* iteration of the receive loop is one step.

\* the tasks that call the session, and the calls each of them makes
Callers == 1..2
MaxCalls == 2

\* the calls that expect a result, and the response stew sends to each
CallKinds == { "load_plugin", "get_fn", "call_fn_and_await_response" }
expected_response(kind) ==
    CASE kind = "load_plugin" -> "PluginLoaded"
      [] kind = "get_fn" -> "GotFunctionId"
      [] kind = "call_fn_and_await_response" -> "FunctionReturned"

InvocationResponse(invocation_id, kind) ==
    [msg |-> "InvocationResponse", invocation_id |-> invocation_id, kind |-> kind]
FunctionCalled == [msg |-> "FunctionCalled"]

\* a caller that has made n calls and is between two calls
idle(n, result) == [pc |-> "idle", calls |-> n, invocation_id |-> None,
                    kind |-> None, recv |-> None, result |-> result]

\* expect_invocation_result!
expect_invocation_result(value, kind) ==
    IF value = expected_response(kind) THEN Ok
    ELSE IF value = "InvocationFailed" THEN Err("InvocationFailed")
    ELSE Err("UnexpectedInvocationResponse")

\* StewSessionBase::start, and one idle caller for each handle
InitSession ==
    /\ buffer_unused
    /\ document_unused
    /\ view = [vp |-> Viewport(0, 1)]
    /\ mapper_unused
    /\ invocations = << >>
    /\ stew_send = {}
    /\ stew_recv = << >>
    /\ caller = [c \in Callers |-> idle(0, None)]
    /\ dropped = {}

\* load_plugin, get_fn, call_fn_and_await_response up to their send_call:
\* InvocationId::gen() and the call sent to stew
DoSendCall(c) ==
    /\ caller[c].pc = "idle"
    /\ caller[c].calls < MaxCalls
    /\ \E kind \in CallKinds :
          LET invocation_id == << c, caller[c].calls + 1 >>
          IN  /\ stew_send' = stew_send \cup { [kind |-> kind, invocation_id |-> invocation_id] }
              /\ caller' = [caller EXCEPT ![c] =
                              [pc |-> "sent", calls |-> @.calls + 1,
                               invocation_id |-> Some(invocation_id), kind |-> Some(kind),
                               recv |-> None, result |-> None]]
    /\ UNCHANGED << buffer_vars, document_vars, view, mapper_vars,
                    invocations, stew_recv, dropped >>

\* await_invocation_result up to recv.await: the oneshot channel is made and
\* its sender is put into the map
DoAwaitInvocationResult(c) ==
    /\ caller[c].pc = "sent"
    /\ invocations' = (Unwrap(caller[c].invocation_id) :> c) @@ invocations
    /\ caller' = [caller EXCEPT ![c].pc = "awaiting"]
    /\ UNCHANGED << buffer_vars, document_vars, view, mapper_vars,
                    stew_send, stew_recv, dropped >>

\* one iteration of the receive loop on an InvocationResponse: the sender of
\* the id is taken out of the map and the response is sent through it;
\* without a sender for the id nothing is done with the response
receive_invocation_response(inv, response) ==
    IF response.invocation_id \in DOMAIN inv
    THEN [ invocations |-> [id \in DOMAIN inv \ {response.invocation_id} |-> inv[id]],
           sent_to |-> Some(inv[response.invocation_id]),
           dropped |-> {} ]
    ELSE [ invocations |-> inv, sent_to |-> None,
           dropped |-> {response.invocation_id} ]

\* the receive task: recv_from_stew and the arm of the message
DoReceive ==
    /\ stew_recv # << >>
    /\ stew_recv' = Tail(stew_recv)
    /\ LET message == Head(stew_recv)
       IN  IF message.msg = "InvocationResponse"
           THEN LET r == receive_invocation_response(invocations, message)
                IN  /\ invocations' = r.invocations
                    /\ dropped' = dropped \cup r.dropped
                    /\ caller' = [c \in Callers |->
                                    IF c \in r.sent_to
                                    THEN [caller[c] EXCEPT !.recv = Some(message)]
                                    ELSE caller[c]]
           ELSE UNCHANGED << invocations, dropped, caller >>
    /\ UNCHANGED << buffer_vars, document_vars, view, mapper_vars, stew_send >>

\* await_invocation_result from recv.await on, and the rest of the call: the
\* response is taken from the oneshot channel and matched
DoReturn(c) ==
    /\ caller[c].pc = "awaiting"
    /\ caller[c].recv # None
    /\ LET response == Unwrap(caller[c].recv)
           id == Unwrap(caller[c].invocation_id)
       IN  /\ invocations' = [i \in DOMAIN invocations \ {id} |-> invocations[i]]
           /\ caller' = [caller EXCEPT ![c] =
                           idle(@.calls,
                                Some([invocation_id |-> response.invocation_id,
                                      value |-> expect_invocation_result(
                                                    response.kind, Unwrap(@.kind))]))]
    /\ UNCHANGED << buffer_vars, document_vars, view, mapper_vars,
                    stew_send, stew_recv, dropped >>

\* stew answers a call it has received
DoStewResponds ==
    /\ \E call \in stew_send :
          \E kind \in { expected_response(call.kind), "InvocationFailed" } :
              /\ stew_send' = stew_send \ {call}
              /\ stew_recv' = Append(stew_recv, InvocationResponse(call.invocation_id, kind))
    /\ UNCHANGED << buffer_vars, document_vars, view, mapper_vars,
                    invocations, caller, dropped >>

\* stew forwards the call of another plugin
DoStewCallsFunction ==
    /\ stew_recv = << >>
    /\ stew_send # {}
    /\ stew_recv' = << FunctionCalled >>
    /\ UNCHANGED << buffer_vars, document_vars, view, mapper_vars,
                    invocations, stew_send, caller, dropped >>

NextSession ==
    \/ \E c \in Callers : DoSendCall(c)
    \/ \E c \in Callers : DoAwaitInvocationResult(c)
    \/ DoReceive
    \/ \E c \in Callers : DoReturn(c)
    \/ DoStewResponds
    \/ DoStewCallsFunction

SpecSession == InitSession /\ [][NextSession]_vars

\* every step that can be taken is taken in the end
SpecSessionFair ==
    /\ SpecSession
    /\ \A c \in Callers : WF_vars(DoAwaitInvocationResult(c)) /\ WF_vars(DoReturn(c))
    /\ WF_vars(DoReceive)
    /\ WF_vars(DoStewResponds)

\* C38: the InvocationResponse with the invocation_id of a call is delivered
\* to the caller that awaits it and to no other, under every interleaving of
\* the caller with the receive task; no response is dropped because it
\* arrives before the caller has put its oneshot sender into the map.
C38_ResponseReachesCaller ==
    /\ dropped = {}
    /\ \A c \in Callers :
          /\ caller[c].recv # None =>
                Unwrap(caller[c].recv).invocation_id = Unwrap(caller[c].invocation_id)
          /\ caller[c].result # None =>
                Unwrap(caller[c].result).invocation_id = << c, caller[c].calls >>

\* a caller whose call stew has answered returns from the call
C38_CallerReturns ==
    \A c \in Callers : (caller[c].pc = "sent") ~> (caller[c].pc = "idle")

\* the response is delivered to the caller that awaits it and to no other,
\* when its sender is in the map
C38_RegisteredResponseReachesCaller ==
    \A c \in Callers :
        /\ caller[c].recv # None =>
              Unwrap(caller[c].recv).invocation_id = Unwrap(caller[c].invocation_id)
        /\ caller[c].result # None =>
              Unwrap(caller[c].result).invocation_id = << c, caller[c].calls >>

\* a caller waits for a response that the receive task has dropped
waits_forever ==
    \E c \in Callers :
        /\ caller[c].pc = "awaiting"
        /\ caller[c].recv = None
        /\ Unwrap(caller[c].invocation_id) \in dropped

====
